---- MODULE Spec2Model ----
(***************************************************************************)
(* Model of the LLM chat service of MQTT-Explorer                          *)
(* (app/src/services/llmService.ts): the conversation history, the         *)
(* multi-round tool-calling loop of sendMessage, the tool dispatcher       *)
(* (executeTool and the four topic-tree queries) and the path lookup.      *)
(*                                                                         *)
(* Strings are TLA+ strings; template strings are built with \o.           *)
(* The topic tree is a read-only snapshot: a table of nodes indexed 1..N,  *)
(* NoNode standing for null/undefined.                                     *)
(***************************************************************************)
EXTENDS Integers, Sequences, FiniteSets, TLC

\* ------------------------------------------------------------------------
\* Bounds of the model (not program constants)
\* ------------------------------------------------------------------------

\* sendMessage calls in one behaviour
MaxTurns == 2

\* gateway replies carrying tool invocations in one behaviour
MaxToolReplies == 6

\* the same, in behaviours with overlapping sendMessage calls
MaxOverlapToolReplies == 2

\* children of the topic "many"
ManyChildren == 52

\* history entries of the topics under "log"
LogEntries == 25

\* largest limit passed to the history and children operations
MaxLimit == 51

\* longest text and largest token limit passed to truncateToTokenLimit
MaxTextLen == 40

MaxBudget == 9

\* largest configured budget of the related topics in a topic context
MaxContextBudget == 160

\* sendMessage calls and gateway replies carrying tool invocations in the
\* behaviours that also ask for suggested questions
MaxSuggestTurns == 1

MaxSuggestToolReplies == 3

\* ------------------------------------------------------------------------
\* Program constants
\* ------------------------------------------------------------------------

\* let maxToolRounds = 5 // Prevent infinite loops
maxToolRounds == 5

\* this.conversationHistory.slice(-10): messages kept besides the system one
keepLast == 10

\* estimateTokens: ~4 characters per token
charsPerToken == 4

\* null / undefined node reference
NoNode == 0

\* ------------------------------------------------------------------------
\* The topic tree (TopicNode, read-only).  path, childTopicCount and the
\* formatted payload are accessors of the tree store; here they are fields.
\* payload "" is an absent message; history is messageHistory.getAll().
\* ------------------------------------------------------------------------

Edge(n, c) == [name |-> n, node |-> c]

Msg(ts, v) == [timestamp |-> ts, payload |-> v]

\* two-digit decimal numeral
pad2(i) == IF i < 10 THEN "0" \o ToString(i) ELSE ToString(i)

\* messageHistory.getAll() of a topic that received n messages, oldest first
Log(n, even, odd) ==
  [i \in 1..n |-> Msg("2024-01-01T00:" \o pad2(i) \o ":00.000Z",
                      IF i % 2 = 0 THEN even ELSE odd)]

\* a payload of 100 characters
Hundred ==
  "0123456789012345678901234567890123456789012345678901234567890123456789012345678901234567890123456789"

\* a payload of 900 characters
NineHundred ==
  Hundred \o Hundred \o Hundred \o Hundred \o Hundred \o Hundred \o Hundred
          \o Hundred \o Hundred

\* index of the first child of "many"; its children follow the named nodes
FirstOfMany == 39

\* The named nodes, one row each:
\*   <<path, parent, payload, retain, messages, childTopicCount, edges>>
\* with the edges as <<name, node>> pairs in insertion order.
Named ==
  << <<"", 0, "", FALSE, 0, 3,
       << <<"home", 2>>, <<"test", 7>>, <<"lab", 10>>, <<"dev", 12>>, <<"log", 15>>,
          <<"many", 18>>, <<"building-a", 19>>, <<"house", 27>> >> >>,
     <<"home", 1, "", FALSE, 0, 3, << <<"bedroom", 3>>, <<"kitchen", 6>> >> >>,
     <<"home/bedroom", 2, "", FALSE, 0, 2, << <<"lamp", 4>>, <<"sensor", 5>> >> >>,
     <<"home/bedroom/lamp", 3, "ON", FALSE, 4, 0, <<>> >>,
     <<"home/bedroom/sensor", 3, "22.5", FALSE, 1, 0, <<>> >>,
     <<"home/kitchen", 2, "idle", TRUE, 1, 0, <<>> >>,
     \* 7..9: a child named "sensor" next to one named "/sensor"
     <<"test", 1, "", FALSE, 0, 2, << <<"sensor", 8>>, <<"/sensor", 9>> >> >>,
     <<"test/sensor", 7, "normal", FALSE, 1, 0, <<>> >>,
     <<"test//sensor", 7, "slash", FALSE, 1, 0, <<>> >>,
     \* 10..11: only "lab/sensor" exists
     <<"lab", 1, "", FALSE, 0, 1, << <<"sensor", 11>> >> >>,
     <<"lab/sensor", 10, "ok", FALSE, 1, 0, <<>> >>,
     \* 12..14: topic "dev//probe", its middle segment the empty string
     <<"dev", 1, "", FALSE, 0, 1, << <<"", 13>> >> >>,
     <<"dev/", 12, "", FALSE, 0, 1, << <<"probe", 14>> >> >>,
     <<"dev//probe", 13, "1", FALSE, 1, 0, <<>> >>,
     \* 15..17: topics with more history than any window
     <<"log", 1, "", FALSE, 0, 2, << <<"short", 16>>, <<"long", 17>> >> >>,
     <<"log/short", 15, "ON", FALSE, LogEntries, 0, <<>> >>,
     <<"log/long", 15, "{\"state\":\"ON\",\"brightness\":80}", FALSE, LogEntries, 0,
       <<>> >>,
     \* 18: a topic with more children than any listing
     <<"many", 1, "", FALSE, 0, ManyChildren,
       [i \in 1..ManyChildren |-> <<"child" \o pad2(i), FirstOfMany + i - 1>>] >>,
     \* 19..26: a topic eight levels deep
     <<"building-a", 1, "", FALSE, 0, 1, << <<"floor-03", 20>> >> >>,
     <<"building-a/floor-03", 19, "", FALSE, 0, 1, << <<"room-0042", 21>> >> >>,
     <<"building-a/floor-03/room-0042", 20, "", FALSE, 0, 1, << <<"rack-17", 22>> >> >>,
     <<"building-a/floor-03/room-0042/rack-17", 21, "", FALSE, 0, 1,
       << <<"shelf-2", 23>> >> >>,
     <<"building-a/floor-03/room-0042/rack-17/shelf-2", 22, "", FALSE, 0, 1,
       << <<"controller", 24>> >> >>,
     <<"building-a/floor-03/room-0042/rack-17/shelf-2/controller", 23, "", FALSE, 0, 1,
       << <<"channel-5", 25>> >> >>,
     <<"building-a/floor-03/room-0042/rack-17/shelf-2/controller/channel-5", 24, "",
       FALSE, 0, 1, << <<"temperature", 26>> >> >>,
     <<"building-a/floor-03/room-0042/rack-17/shelf-2/controller/channel-5/temperature",
       25, "21.5", FALSE, 1, 0, <<>> >>,
     \* 27..38: a neighbourhood of valued topics around "house/living/light"
     <<"house", 1, "auto", TRUE, 3, 2, << <<"living", 28>>, <<"archive", 38>> >> >>,
     <<"house/living", 27, "evening", TRUE, 3, 3,
       << <<"light", 29>>, <<"thermostat", 30>>, <<"motion", 31>> >> >>,
     <<"house/living/light", 28, "{\"state\":\"ON\"}", TRUE, 3, 3,
       << <<"set", 32>>, <<"brightness", 33>>, <<"availability", 34>> >> >>,
     <<"house/living/thermostat", 28, "21.5\n\"eco\"\tmode\\x\r", TRUE, 3, 1,
       << <<"target", 35>> >> >>,
     <<"house/living/motion", 28, Hundred \o "motion;motion;motion;motion;motion",
       FALSE, 1, 0, <<>> >>,
     <<"house/living/light/set", 29, "ON", FALSE, 1, 0, <<>> >>,
     <<"house/living/light/brightness", 29, "75", TRUE, 3, 1, << <<"level", 36>> >> >>,
     <<"house/living/light/availability", 29, "online", TRUE, 3, 1,
       << <<"ok", 37>> >> >>,
     <<"house/living/thermostat/target", 30, "20", FALSE, 1, 0, <<>> >>,
     <<"house/living/light/brightness/level", 33, "calibrated-at-2024-01-01", FALSE, 1,
       0, <<>> >>,
     <<"house/living/light/availability/ok", 34, "1", FALSE, 1, 0, <<>> >>,
     <<"house/archive", 27, NineHundred, FALSE, 1, 0, <<>> >> >>

\* messageHistory.getAll() of the node with index i
History(i) ==
  CASE i = 4 -> << Msg("2024-01-01T00:00:00.000Z", "OFF"),
                   Msg("2024-01-01T01:00:00.000Z", "ON"),
                   Msg("2024-01-01T02:00:00.000Z", "OFF"),
                   Msg("", "ON") >>
    [] i = 5 -> <<Msg("2024-01-01T00:00:00.000Z", "22.5")>>
    [] i = 16 -> Log(LogEntries, "OFF", "ON")
    [] i = 17 -> Log(LogEntries, "{\"state\":\"OFF\"}",
                     "{\"state\":\"ON\",\"brightness\":80}")
    [] OTHER -> <<>>

\* the TopicNode of a row
TopicOf(row, i) ==
  [ path |-> row[1], parent |-> row[2],
    edges |-> [k \in 1..Len(row[7]) |-> Edge(row[7][k][1], row[7][k][2])],
    payload |-> row[3], retain |-> row[4], messages |-> row[5],
    childTopicCount |-> row[6], history |-> History(i) ]

TopicsOf(rows) == [i \in 1..Len(rows) |-> TopicOf(rows[i], i)]

\* the named nodes, then the children of "many"
Tree ==
  TopicsOf(Named)
  \o [i \in 1..ManyChildren |->
        TopicOf(<<"many/child" \o pad2(i), 18,
                  "{\"status\": \"active\", \"value\": " \o ToString(i) \o "}",
                  FALSE, 1, 0, <<>> >>, 0)]

Nodes == DOMAIN Tree

\* ------------------------------------------------------------------------
\* Text helpers
\* ------------------------------------------------------------------------

Min(a, b) == IF a <= b THEN a ELSE b

Max(a, b) == IF a >= b THEN a ELSE b

\* Array.prototype.join
RECURSIVE join(_, _)
join(lines, sep) ==
  IF Len(lines) = 0 THEN ""
  ELSE IF Len(lines) = 1 THEN lines[1]
  ELSE lines[1] \o sep \o join(Tail(lines), sep)

\* ' '.repeat(n)
RECURSIVE spaces(_)
spaces(n) == IF n <= 0 THEN "" ELSE " " \o spaces(n - 1)

\* Array.prototype.slice(start) with one (possibly negative) argument
sliceFrom(s, start) ==
  LET from == IF start < 0 THEN Max(Len(s) + start, 0) ELSE Min(start, Len(s))
  IN  SubSeq(s, from + 1, Len(s))

\* Array.prototype.slice(0, end) for end >= 0 or negative
sliceTo(s, end) ==
  LET to == IF end < 0 THEN Max(Len(s) + end, 0) ELSE Min(end, Len(s))
  IN  SubSeq(s, 1, to)

\* Math.ceil(text.length / 4)
estimateTokens(text) == (Len(text) + charsPerToken - 1) \div charsPerToken

\* a truncation that keeps maxChars characters and then appends the marker
truncateToTokenLimit_NoReserve(text, tokenLimit) ==
  IF estimateTokens(text) <= tokenLimit
  THEN [text |-> text, truncated |-> FALSE]
  ELSE [text |-> SubSeq(text, 1, tokenLimit * charsPerToken) \o "...",
        truncated |-> TRUE]

truncateToTokenLimit(text, tokenLimit) ==
  IF estimateTokens(text) <= tokenLimit
  THEN [text |-> text, truncated |-> FALSE]
  ELSE LET maxChars == tokenLimit * charsPerToken
       IN  IF Len(text) <= maxChars
           THEN [text |-> text, truncated |-> FALSE]
           ELSE [text |-> SubSeq(text, 1, maxChars - 3) \o "...", truncated |-> TRUE]

\* ------------------------------------------------------------------------
\* Path lookup
\* ------------------------------------------------------------------------

\* a walk that stops at the parent
findRootNode_OneStep(node) ==
  IF node = NoNode THEN NoNode
  ELSE IF Tree[node].parent = NoNode THEN node
  ELSE Tree[node].parent

\* a lookup that starts at the focus node itself instead of walking up
findRootNode_NoWalk(node) == node

RECURSIVE findRootNode(_)
findRootNode(node) ==
  IF node = NoNode THEN NoNode
  ELSE IF Tree[node].parent = NoNode THEN node
  ELSE findRootNode(Tree[node].parent)

RECURSIVE findTopicNode(_, _)
RECURSIVE findInEdges(_, _, _)
\* a search that gives up after the first child's subtree
findInEdges_FirstOnly(topicPath, edges, i) ==
  IF i > Len(edges) \/ i > 1 THEN NoNode
  ELSE findTopicNode(topicPath, edges[i].node)

\* the loop over currentNode.edgeCollection.edges, from edge i on
findInEdges(topicPath, edges, i) ==
  IF i > Len(edges) THEN NoNode
  ELSE LET found == findTopicNode(topicPath, edges[i].node)
       IN  IF found # NoNode THEN found
           ELSE findInEdges(topicPath, edges, i + 1)

\* a path with every run of delimiters collapsed to one
collapse(path) ==
  LET RECURSIVE keep(_, _)
      keep(lo, hi) ==
        IF lo > hi THEN ""
        ELSE IF lo = hi
        THEN (IF lo < Len(path) /\ SubSeq(path, lo, lo + 1) = "//"
              THEN "" ELSE SubSeq(path, lo, lo))
        ELSE keep(lo, (lo + hi) \div 2) \o keep((lo + hi) \div 2 + 1, hi)
  IN  keep(1, Len(path))

\* a lookup that normalizes both paths before comparing them
findTopicNode_Collapsing(topicPath, currentNode) ==
  IF currentNode = NoNode THEN NoNode
  ELSE IF collapse(Tree[currentNode].path) = collapse(topicPath) THEN currentNode
  ELSE findInEdges(topicPath, Tree[currentNode].edges, 1)

findTopicNode(topicPath, currentNode) ==
  IF currentNode = NoNode THEN NoNode
  ELSE IF Tree[currentNode].path = topicPath THEN currentNode
  ELSE findInEdges(topicPath, Tree[currentNode].edges, 1)

\* ------------------------------------------------------------------------
\* Tool dispatcher: the four read-only queries
\* ------------------------------------------------------------------------

\* Math.min(limit, 20) in queryTopicHistory
historyMaxEntries == 20

\* Math.min(limit, 50) in listChildren
childrenMaxEntries == 50

\* token limit of queryTopicHistory, getTopic and listChildren
toolTokenLimit == 200

\* token limit of listParents
parentsTokenLimit == 100

\* args.limit || 10
defaultHistoryLimit == 10

\* args.limit || 20
defaultChildrenLimit == 20

\* `[${timestamp}] ${value}` of one history entry
historyLine(msg) ==
  LET timestamp == IF msg.timestamp # "" THEN msg.timestamp ELSE "unknown"
      value == IF msg.payload # "" THEN msg.payload ELSE "null"
  IN  "[" \o timestamp \o "] " \o value

\* a query that takes the recent messages out of the history (splice)
historyAfterQuery_Splice(messages, limit) ==
  sliceTo(messages,
          Len(messages) - Len(sliceFrom(messages, 0 - Min(limit, historyMaxEntries))))

\* messageHistory.getAll() after messages.slice(-n): slice copies, the array
\* it is called on keeps its elements
historyAfterQuery(messages, limit) == messages

\* queryTopicHistory from messageHistory.getAll() on
historyText(topicPath, limit, messages) ==
  IF Len(messages) = 0
  THEN "No messages in history for topic: " \o topicPath
  ELSE LET recentMessages == sliceFrom(messages, 0 - Min(limit, historyMaxEntries))
           formatted == join([i \in 1..Len(recentMessages) |->
                                historyLine(recentMessages[i])], "\n")
           limited == truncateToTokenLimit(formatted, toolTokenLimit)
       IN  IF limited.truncated
           THEN limited.text \o "\n[TRUNCATED - showing first 200 tokens]"
           ELSE limited.text

queryTopicHistory(topicPath, limit, rootNode) ==
  LET node == IF rootNode # NoNode THEN findTopicNode(topicPath, rootNode) ELSE NoNode
  IN  IF node = NoNode THEN "Topic not found: " \o topicPath
      ELSE historyText(topicPath, limit, Tree[node].history)

\* a getTopic whose failure text does not say which topic was asked for
getTopic_NoPath(topicPath, rootNode) ==
  LET node == IF rootNode # NoNode THEN findTopicNode(topicPath, rootNode) ELSE NoNode
  IN  IF node = NoNode THEN "Topic not found"
      ELSE "Topic: " \o topicPath

getTopic(topicPath, rootNode) ==
  LET node == IF rootNode # NoNode THEN findTopicNode(topicPath, rootNode) ELSE NoNode
  IN  IF node = NoNode THEN "Topic not found: " \o topicPath
      ELSE LET n == Tree[node]
               info == <<"Topic: " \o topicPath>>
                       \o (IF n.payload # "" THEN <<"Value: " \o n.payload>> ELSE <<>>)
                       \o (IF n.payload # "" /\ n.retain THEN <<"Retained: true">> ELSE <<>>)
                       \o (IF n.messages # 0
                           THEN <<"Messages: " \o ToString(n.messages)>> ELSE <<>>)
                       \o (IF n.childTopicCount > 0
                           THEN <<"Subtopics: " \o ToString(n.childTopicCount)>> ELSE <<>>)
               limited == truncateToTokenLimit(join(info, "\n"), toolTokenLimit)
           IN  IF limited.truncated THEN limited.text \o "\n[TRUNCATED]" ELSE limited.text

\* one line of listChildren; the marks are U+2713 (has a value) and U+25CB
\* (structural only), written here as "v" and "o"
\* a listing line that always puts the parent path and a delimiter in front
childLine_AlwaysPrefixed(topicPath, edge) ==
  LET childPath == topicPath \o "/" \o edge.name
      hasValue == IF Tree[edge.node].payload # "" THEN "v" ELSE "o"
  IN  hasValue \o " " \o childPath

childLine(topicPath, edge) ==
  LET childPath == IF topicPath # "" THEN topicPath \o "/" \o edge.name ELSE edge.name
      hasValue == IF Tree[edge.node].payload # "" THEN "v" ELSE "o"
      childCount == Tree[edge.node].childTopicCount
      suffix == IF childCount > 0
                THEN " (" \o ToString(childCount) \o " subtopics)" ELSE ""
  IN  hasValue \o " " \o childPath \o suffix

RECURSIVE childLines(_, _)
childLines(topicPath, edges) ==
  IF Len(edges) = 0 THEN <<>>
  ELSE (IF edges[1].name # "" /\ edges[1].node # NoNode
        THEN <<childLine(topicPath, edges[1])>> ELSE <<>>)
       \o childLines(topicPath, Tail(edges))

\* node.edgeCollection.edges after edges.slice(0, maxChildren): slice copies
edgesAfterListing(edges, limit) == edges

\* listChildren from node.edgeCollection.edges on
childrenText(topicPath, limit, edges) ==
  IF Len(edges) = 0
  THEN "No child topics found for: " \o topicPath
  ELSE LET maxChildren == Min(limit, childrenMaxEntries)
           children == childLines(topicPath, sliceTo(edges, maxChildren))
           result == "Child topics (" \o ToString(Len(children)) \o "):\n"
                     \o join(children, "\n")
           limited == truncateToTokenLimit(result, toolTokenLimit)
       IN  IF limited.truncated
           THEN limited.text \o "\n[TRUNCATED - showing first 200 tokens]"
           ELSE limited.text

listChildren(topicPath, limit, rootNode) ==
  LET node == IF rootNode # NoNode THEN findTopicNode(topicPath, rootNode) ELSE NoNode
  IN  IF node = NoNode THEN "Topic not found: " \o topicPath
      ELSE childrenText(topicPath, limit, Tree[node].edges)

\* an ancestor walk that lists the immediate parent first
RECURSIVE parentPaths_NearestFirst(_)
parentPaths_NearestFirst(current) ==
  IF current = NoNode THEN <<>>
  ELSE (IF Tree[current].path # "" THEN <<Tree[current].path>> ELSE <<>>)
       \o parentPaths_NearestFirst(Tree[current].parent)

\* the while loop of listParents: ancestors' non-empty paths, top-most first
RECURSIVE parentPaths(_)
parentPaths(current) ==
  IF current = NoNode THEN <<>>
  ELSE parentPaths(Tree[current].parent)
       \o (IF Tree[current].path # "" THEN <<Tree[current].path>> ELSE <<>>)

listParents(topicPath, rootNode) ==
  LET node == IF rootNode # NoNode THEN findTopicNode(topicPath, rootNode) ELSE NoNode
  IN  IF node = NoNode THEN "Topic not found: " \o topicPath
      ELSE LET parents == parentPaths(Tree[node].parent)
           IN  IF Len(parents) = 0
               THEN "No parent topics for: " \o topicPath \o " (root level topic)"
               ELSE LET result == "Parent hierarchy:\n"
                                  \o join([i \in 1..Len(parents) |->
                                             spaces((i - 1) * 2) \o parents[i]], "\n")
                                  \o "\n" \o spaces(Len(parents) * 2)
                                  \o topicPath \o " (current)"
                        limited == truncateToTokenLimit(result, parentsTokenLimit)
                    IN  IF limited.truncated
                        THEN limited.text \o "\n[TRUNCATED]" ELSE limited.text


\* ------------------------------------------------------------------------
\* Topic context: generateTopicContext and its helpers
\* ------------------------------------------------------------------------

\* token allowance of the main topic's value
valueTokenLimit == 200

\* default token allowance of one neighbor preview
neighborAllocation == 30

\* token allowance of a cousin's preview
cousinAllocation == 25

\* budget of the related topics when none is configured
defaultNeighboringTopicsTokenLimit == 500

\* config.neighboringTopicsTokenLimit || <unset environment> || 500; 0 stands
\* for an absent (falsy) configuration value
neighboringTopicsTokenLimit(configured) ==
  IF configured # 0 THEN configured ELSE defaultNeighboringTopicsTokenLimit

\* the replacement escapeToSingleLine makes for one character (the five
\* replacements never overlap, so the text is mapped character by character)
escapeChar(c) ==
  CASE c = "\\" -> "\\\\"
    [] c = "\n" -> "\\n"
    [] c = "\r" -> "\\r"
    [] c = "\t" -> "\\t"
    [] c = "\"" -> "\\\""
    [] OTHER -> c

\* an escaping that leaves tabs alone
escapeToSingleLine_KeepTabs(text) ==
  LET RECURSIVE esc(_, _)
      esc(lo, hi) ==
        IF lo > hi THEN ""
        ELSE IF lo = hi
        THEN (IF SubSeq(text, lo, lo) = "\t" THEN "\t"
              ELSE escapeChar(SubSeq(text, lo, lo)))
        ELSE esc(lo, (lo + hi) \div 2) \o esc((lo + hi) \div 2 + 1, hi)
  IN  esc(1, Len(text))

escapeToSingleLine(text) ==
  LET RECURSIVE esc(_, _)
      esc(lo, hi) ==
        IF lo > hi THEN ""
        ELSE IF lo = hi THEN escapeChar(SubSeq(text, lo, lo))
        ELSE esc(lo, (lo + hi) \div 2) \o esc((lo + hi) \div 2 + 1, hi)
  IN  esc(1, Len(text))

\* String(value), escaped, truncated, and marked when asked to
formatValueForContext(value, tokenLimit, markTruncation) ==
  LET escaped == escapeToSingleLine(value)
      result  == truncateToTokenLimit(escaped, tokenLimit)
  IN  IF result.truncated /\ markTruncation
      THEN "[TRUNCATED] " \o result.text
      ELSE result.text

\* neighbors and neighborsTokenCount before the first tier
NoNeighbors == [neighbors |-> <<>>, count |-> 0, added |-> FALSE]

\* an addNeighbor that does not look at the budget
addNeighbor_Unchecked(acc, tier, node, fullPath, tokenAllocation, tokenLimit) ==
  LET preview       == formatValueForContext(Tree[node].payload, tokenAllocation, FALSE)
      neighborEntry == "  " \o fullPath \o ": " \o preview
      tokens        == estimateTokens(neighborEntry)
  IN  [neighbors |-> Append(acc.neighbors,
                            [entry |-> neighborEntry, tier |-> tier, node |-> node,
                             fullPath |-> fullPath, tokens |-> tokens]),
       count |-> acc.count + tokens, added |-> TRUE]

\* addNeighbor: the entry is kept iff it fits what is left of the budget.  Each
\* kept entry remembers the tier that emitted it, the node it previews and its
\* token estimate next to the text the code keeps.
addNeighbor(acc, tier, node, fullPath, tokenAllocation, tokenLimit) ==
  LET preview       == formatValueForContext(Tree[node].payload, tokenAllocation, FALSE)
      neighborEntry == "  " \o fullPath \o ": " \o preview
      tokens        == estimateTokens(neighborEntry)
  IN  IF acc.count + tokens <= tokenLimit
      THEN [neighbors |-> Append(acc.neighbors,
                                 [entry |-> neighborEntry, tier |-> tier, node |-> node,
                                  fullPath |-> fullPath, tokens |-> tokens]),
            count |-> acc.count + tokens, added |-> TRUE]
      ELSE [acc EXCEPT !.added = FALSE]

\* one "for (const edge of ...)" loop over valued, named edges; prefix is the
\* text put before edge.name.  The loop ends at the first entry that does not
\* fit and when the budget is used up.
RECURSIVE walkEdges(_, _, _, _, _, _, _)
walkEdges(acc, edges, i, tier, prefix, tokenAllocation, tokenLimit) ==
  IF i > Len(edges) \/ acc.count >= tokenLimit THEN acc
  ELSE LET edge == edges[i]
       IN  IF edge.name # "" /\ edge.node # NoNode /\ Tree[edge.node].payload # ""
           THEN LET next == addNeighbor(acc, tier, edge.node, prefix \o edge.name,
                                        tokenAllocation, tokenLimit)
                IN  IF next.added
                    THEN walkEdges(next, edges, i + 1, tier, prefix, tokenAllocation,
                                   tokenLimit)
                    ELSE next
           ELSE walkEdges(acc, edges, i + 1, tier, prefix, tokenAllocation, tokenLimit)

\* the two-level loops (grandchildren, cousins): an entry that does not fit
\* ends the inner loop only
RECURSIVE walkNested(_, _, _, _, _, _, _)
walkNested(acc, outer, i, tier, base, tokenAllocation, tokenLimit) ==
  IF i > Len(outer) \/ acc.count >= tokenLimit THEN acc
  ELSE LET o    == outer[i]
           next == IF o.node # NoNode
                   THEN walkEdges(acc, Tree[o.node].edges, 1, tier,
                                  base \o o.name \o "/", tokenAllocation, tokenLimit)
                   ELSE acc
       IN  walkNested(next, outer, i + 1, tier, base, tokenAllocation, tokenLimit)

\* `${path}/` in front of a name, or nothing when the path is empty
under(path) == IF path # "" THEN path \o "/" ELSE ""

\* parentNode.path(), "" without a parent
pathOf(node) == IF node # NoNode THEN Tree[node].path ELSE ""

\* tier 1: the parent, when it has a value
parentTier(parent, tokenLimit) ==
  IF parent # NoNode /\ Tree[parent].payload # "" /\ 0 < tokenLimit
  THEN addNeighbor(NoNeighbors, "parent", parent, Tree[parent].path,
                   neighborAllocation, tokenLimit)
  ELSE NoNeighbors

\* tier 2: the edges of the parent
siblingTier(acc, parent, parentPath, tokenLimit) ==
  IF parent # NoNode
  THEN walkEdges(acc, Tree[parent].edges, 1, "siblings", under(parentPath),
                 neighborAllocation, tokenLimit)
  ELSE acc

\* tier 3: the edges of the topic
childTier(acc, edges, currentPath, tokenLimit) ==
  IF acc.count < tokenLimit
  THEN walkEdges(acc, edges, 1, "children", under(currentPath), neighborAllocation,
                 tokenLimit)
  ELSE acc

\* the edges of the topic whose node was listed as a child
childNodes(acc, edges) ==
  SelectSeq(edges, LAMBDA e : \E k \in DOMAIN acc.neighbors :
                                /\ acc.neighbors[k].tier = "children"
                                /\ acc.neighbors[k].node = e.node)

\* tier 4: the edges of the listed children
grandchildTier(acc, edges, currentPath, tokenLimit) ==
  walkNested(acc, childNodes(acc, edges), 1, "grandchildren", under(currentPath),
             neighborAllocation, tokenLimit)

\* tier 5: the edges of the parent's children
cousinTier(acc, parent, parentPath, tokenLimit) ==
  IF parent # NoNode /\ acc.count < tokenLimit
  THEN walkNested(acc, Tree[parent].edges, 1, "cousins", under(parentPath),
                  cousinAllocation, tokenLimit)
  ELSE acc

\* the five tiers around the node t, in the order of the code
neighborsAround(t, parentPath, tokenLimit) ==
  cousinTier(
    grandchildTier(
      childTier(
        siblingTier(parentTier(t.parent, tokenLimit), t.parent, parentPath, tokenLimit),
        t.edges, t.path, tokenLimit),
      t.edges, t.path, tokenLimit),
    t.parent, parentPath, tokenLimit).neighbors

neighborsOf(topic, tokenLimit) ==
  neighborsAround(Tree[topic], pathOf(Tree[topic].parent), tokenLimit)

\* the parts of the context, in the order they are pushed
contextParts(t, neighbors) ==
  <<"Topic: " \o t.path>>
  \o (IF t.payload # ""
      THEN <<"Value: " \o formatValueForContext(t.payload, valueTokenLimit, TRUE)>>
           \o (IF t.retain THEN <<"Retained: true">> ELSE <<>>)
      ELSE <<>>)
  \o (IF Len(neighbors) > 0
      THEN <<"\nRelated Topics (" \o ToString(Len(neighbors)) \o "):",
             join([k \in DOMAIN neighbors |-> neighbors[k].entry], "\n")>>
      ELSE <<>>)
  \o (IF t.messages # 0
      THEN <<"\nMessages: " \o ToString(t.messages)>> ELSE <<>>)
  \o (IF t.childTopicCount > 0
      THEN <<"Subtopics: " \o ToString(t.childTopicCount)>> ELSE <<>>)

\* the context text
generateTopicContext(topic, tokenLimit) ==
  join(contextParts(Tree[topic], neighborsOf(topic, tokenLimit)), "\n")

\* ------------------------------------------------------------------------
\* Tool invocations and executeTool
\* ------------------------------------------------------------------------

\* raw argument payloads the gateway sends (opaque JSON text)
ArgsKitchen == "{\"topic\":\"home/kitchen\"}"

ArgsAttic == "{\"topic\":\"home/attic\"}"

ArgsRoot == "{\"topic\":\"\",\"limit\":1}"

ArgsMalformed == "{topic: home"

ArgsLogNegative == "{\"topic\":\"log/short\",\"limit\":-1}"

ArgsLogZero == "{\"topic\":\"log/short\",\"limit\":0}"

ArgsNoTopic == "{\"limit\":2}"

\* An absent topic (args.topic of a payload without that key, or null) is no
\* string: it is === to no path(), and a template string renders it as the
\* text below.  No node of Tree has one of these texts as its path.
Undefined == "undefined"

Null == "null"

\* JSON.parse on the payloads above; limit 0 stands for an absent (falsy) limit
JSONparse(raw) ==
  CASE raw = ArgsKitchen -> [ok |-> TRUE, topic |-> "home/kitchen", limit |-> 0, error |-> ""]
    [] raw = ArgsAttic   -> [ok |-> TRUE, topic |-> "home/attic", limit |-> 0, error |-> ""]
    [] raw = ArgsRoot    -> [ok |-> TRUE, topic |-> "", limit |-> 1, error |-> ""]
    [] raw = ArgsLogNegative ->
         [ok |-> TRUE, topic |-> "log/short", limit |-> 0 - 1, error |-> ""]
    [] raw = ArgsLogZero -> [ok |-> TRUE, topic |-> "log/short", limit |-> 0, error |-> ""]
    [] raw = ArgsNoTopic -> [ok |-> TRUE, topic |-> Undefined, limit |-> 2, error |-> ""]
    [] OTHER -> [ok |-> FALSE, topic |-> "", limit |-> 0,
                 error |-> "SyntaxError: Unexpected token t in JSON at position 1"]

\* a rejected promise (an exception leaving executeTool)
Rejection(e) == [rejection |-> e]

IsRejection(r) == "rejection" \in DOMAIN r

\* executeTool without its try/catch: a parse error leaves as an exception
executeTool_NoCatch(toolCall, rootNode) ==
  LET args == JSONparse(toolCall.arguments)
  IN  IF args.ok
      THEN [tool_call_id |-> toolCall.id, name |-> toolCall.name,
            content |-> getTopic(args.topic, rootNode)]
      ELSE Rejection(args.error)

executeTool(toolCall, rootNode) ==
  LET args == JSONparse(toolCall.arguments)
      result ==
        CASE toolCall.name = "query_topic_history" ->
               queryTopicHistory(args.topic,
                                 IF args.limit # 0 THEN args.limit ELSE defaultHistoryLimit,
                                 rootNode)
          [] toolCall.name = "get_topic" -> getTopic(args.topic, rootNode)
          [] toolCall.name = "list_children" ->
               listChildren(args.topic,
                            IF args.limit # 0 THEN args.limit ELSE defaultChildrenLimit,
                            rootNode)
          [] toolCall.name = "list_parents" -> listParents(args.topic, rootNode)
          [] OTHER -> "Error: Unknown tool '" \o toolCall.name \o "'"
  IN  IF args.ok
      THEN [tool_call_id |-> toolCall.id, name |-> toolCall.name, content |-> result]
      ELSE [tool_call_id |-> toolCall.id, name |-> toolCall.name,
            content |-> "Error executing tool: " \o args.error]

\* { id: tc.id, name: tc.function?.name || tc.name,
\*   arguments: tc.function?.arguments || tc.arguments }
\* an absent field is the (falsy) empty string
transformToolCall(tc) ==
  [ id |-> tc.id,
    name |-> IF tc.function.name # "" THEN tc.function.name ELSE tc.name,
    arguments |-> IF tc.function.arguments # "" THEN tc.function.arguments
                  ELSE tc.arguments ]

\* toolCalls.map(tc => this.executeTool(transform(tc), rootNode || undefined))
executeAll(toolCalls, rootNode) ==
  [i \in 1..Len(toolCalls) |-> executeTool(transformToolCall(toolCalls[i]), rootNode)]

\* ------------------------------------------------------------------------
\* The Model Gateway (backendRpc.call(RpcEvents.llmChat, ...)): its replies
\* ------------------------------------------------------------------------

\* OpenAI shape { id, function: { name, arguments } }
OpenAICall(n, a) == [id |-> "", function |-> [name |-> n, arguments |-> a],
                     name |-> "", arguments |-> ""]

\* flat shape { id, name, arguments }
FlatCall(n, a) == [id |-> "", function |-> [name |-> "", arguments |-> ""],
                   name |-> n, arguments |-> a]

\* the lists of tool invocations a reply may carry (ids are given per reply)
LookupBatch ==
  <<OpenAICall("get_topic", ArgsKitchen), FlatCall("list_children", ArgsRoot)>>

FaultyBatch ==
  <<OpenAICall("query_topic_history", ArgsMalformed),
    FlatCall("search_topics", ArgsKitchen),
    OpenAICall("list_parents", ArgsAttic)>>

Batches == {LookupBatch, FaultyBatch}

\* the invocations of a batch with the ids of the k-th tool reply
WithIds(batch, k) ==
  [i \in 1..Len(batch) |->
     [batch[i] EXCEPT !.id = "call_" \o ToString(k) \o "_" \o ToString(i)]]

Reply(response, defined, calls) ==
  [status |-> "ok", response |-> response, toolCallsDefined |-> defined,
   toolCalls |-> calls, message |-> ""]

\* everything one gateway call can yield, for the k-th tool reply
GatewayResults(k) ==
  { [status |-> "rejected", response |-> "", toolCallsDefined |-> FALSE,
     toolCalls |-> <<>>, message |-> "LLM API error"],
    [status |-> "null", response |-> "", toolCallsDefined |-> FALSE,
     toolCalls |-> <<>>, message |-> ""],
    Reply("It is idle.", FALSE, <<>>),
    Reply("", FALSE, <<>>),
    Reply("", TRUE, <<>>) }
  \cup { Reply("", TRUE, WithIds(b, k)) : b \in Batches }
  \cup { Reply("Let me check.", TRUE, WithIds(LookupBatch, k)) }


\* ------------------------------------------------------------------------
\* The backend client (LLMApiClient): the request it sends to the provider
\* ------------------------------------------------------------------------

\* messages.map(m => ({ role: m.role, content: m.content }))
chatOpenAI(messages) ==
  [i \in 1..Len(messages) |-> [role |-> messages[i].role, content |-> messages[i].content]]

\* the contents sent to Gemini: no system message, roles "model" and "user",
\* the system text put in front of the first remaining message
chatGemini(messages) ==
  LET rest     == SelectSeq(messages, LAMBDA m : m.role # "system")
      system   == SelectSeq(messages, LAMBDA m : m.role = "system")
      contents == [i \in 1..Len(rest) |->
                     [role  |-> IF rest[i].role = "assistant" THEN "model" ELSE "user",
                      parts |-> <<[text |-> rest[i].content]>>]]
  IN  IF Len(system) > 0 /\ Len(contents) > 0
      THEN [contents EXCEPT ![1].parts =
              <<[text |-> system[1].content \o "\n\n" \o contents[1].parts[1].text]>>]
      ELSE contents

\* chat(messages) of a client constructed for the given provider
chat(provider, messages) ==
  IF provider = "openai" THEN chatOpenAI(messages) ELSE chatGemini(messages)

\* ------------------------------------------------------------------------
\* State
\* ------------------------------------------------------------------------

VARIABLES
  conversationHistory, \* this.conversationHistory: the messages, system first
  historyOwner,        \* history variable: per message, the turn that pushed it
  call,                \* per activation of sendMessage: its position and locals
  request,             \* per activation: the payload of its last gateway request
  outcome,             \* per activation: what sendMessage returned or threw
  trace,               \* history variable: per activation, what the turn did
  turns,               \* sendMessage calls so far
  toolReplies,         \* gateway replies with tool invocations so far
  probe                \* the last direct call of a tree or token operation

vars == <<conversationHistory, historyOwner, call, request, outcome, trace,
          turns, toolReplies, probe>>

\* activations of sendMessage that can be in flight at once
Slots == {1, 2}

\* (userMessage, topicContext, currentNode) of the sendMessage calls
TurnInputs ==
  { [userMessage |-> "Is the kitchen idle?", topicContext |-> "", currentNode |-> NoNode],
    [userMessage |-> "Is the kitchen idle?", topicContext |-> "Topic: home/bedroom",
     currentNode |-> 3] }

SystemMessage ==
  [role |-> "system", content |-> "You are an expert AI assistant specializing in MQTT",
   tool_calls |-> <<>>, tool_call_id |-> ""]

UserMessage(content) ==
  [role |-> "user", content |-> content, tool_calls |-> <<>>, tool_call_id |-> ""]

\* { role: 'assistant', content: assistantMessage || '', tool_calls: toolCalls }
AssistantMessage(content, toolCalls) ==
  [role |-> "assistant", content |-> content, tool_calls |-> toolCalls,
   tool_call_id |-> ""]

\* the results pushed last-first
toolMessages_Reversed(toolResults) ==
  [i \in 1..Len(toolResults) |->
     [role |-> "tool", content |-> toolResults[Len(toolResults) + 1 - i].content,
      tool_calls |-> <<>>,
      tool_call_id |-> toolResults[Len(toolResults) + 1 - i].tool_call_id]]

\* the for loop pushing { role: 'tool', content, tool_call_id } per result
toolMessages(toolResults) ==
  [i \in 1..Len(toolResults) |->
     [role |-> "tool", content |-> toolResults[i].content, tool_calls |-> <<>>,
      tool_call_id |-> toolResults[i].tool_call_id]]

\* if (this.conversationHistory.length > 11) keep [0] and slice(-10)
trimThreshold == 11

\* a trim that keeps the last 10 messages only
keptIndices_LastOnly(n) ==
  IF n > trimThreshold THEN [i \in 1..keepLast |-> n - keepLast + i]
  ELSE [i \in 1..n |-> i]

\* the indices of the history that the trim keeps, in order
keptIndices(n) ==
  IF n > trimThreshold THEN <<1>> \o [i \in 1..keepLast |-> n - keepLast + i]
  ELSE [i \in 1..n |-> i]

trimHistory(h) == [i \in 1..Len(keptIndices(Len(h))) |-> h[keptIndices(Len(h))[i]]]

\* a loop without its round counter check
loopContinues_Always(toolRound) == TRUE

\* while (toolRound < maxToolRounds)
loopContinues(toolRound) == toolRound < maxToolRounds

IdleCall ==
  [pc |-> "idle", userMessage |-> "", topicContext |-> "", currentNode |-> NoNode,
   rootNode |-> NoNode, assistantMessage |-> "", toolCalls |-> <<>>,
   toolResults |-> <<>>, newToolResults |-> <<>>, toolRound |-> 0]

NoRequest == [messages |-> <<>>, toolResults |-> <<>>]

NoOutcome ==
  [status |-> "none", response |-> "", toolCallsDefined |-> FALSE, toolCalls |-> <<>>,
   message |-> ""]

NoTrace ==
  [turn |-> 0, focus |-> NoNode, requests |-> 0, replies |-> <<>>, offered |-> <<>>,
   executed |-> <<>>]

\* no operation called directly yet
NoProbe ==
  [ op |-> "none", name |-> "", topicPath |-> "", limit |-> 0, rootNode |-> NoNode,
    text |-> "", found |-> NoNode, truncated |-> FALSE, result |-> "",
    configured |-> 0, neighbors |-> <<>>, messages |-> <<>>, forwarded |-> <<>>,
    questions |-> <<>>, after |-> [history |-> <<>>, edges |-> <<>>],
    again |-> "", threw |-> FALSE ]

Init ==
  /\ probe = NoProbe
  /\ conversationHistory = <<SystemMessage>>
  /\ historyOwner = <<0>>
  /\ call = [p \in Slots |-> IdleCall]
  /\ request = [p \in Slots |-> NoRequest]
  /\ outcome = [p \in Slots |-> NoOutcome]
  /\ trace = [p \in Slots |-> NoTrace]
  /\ turns = 0
  /\ toolReplies = 0

AllIdle == \A p \in Slots : call[p].pc = "idle"

\* ids of a list of tool invocations
Ids(toolCalls) == [i \in 1..Len(toolCalls) |-> toolCalls[i].id]

\* the kind of a gateway result, as recorded in trace[p].replies
ReplyKind(result) ==
  IF result.status # "ok" THEN result.status
  ELSE IF Len(result.toolCalls) > 0
       THEN (IF result.response = "" THEN "tools" ELSE "text+tools")
       ELSE (IF result.response = "" THEN "empty" ELSE "text")

\* ------------------------------------------------------------------------
\* How an activation ends
\* ------------------------------------------------------------------------

\* catch (error) { throw new Error(err.message || 'Failed to get response ...') }
Throws(p, message) ==
  /\ outcome' = [outcome EXCEPT ![p] =
       [status |-> "threw", response |-> "", toolCallsDefined |-> FALSE,
        toolCalls |-> <<>>,
        message |-> IF message # "" THEN message
                    ELSE "Failed to get response from AI assistant."]]
  /\ call' = [call EXCEPT ![p] = IdleCall]
  /\ request' = [request EXCEPT ![p] = NoRequest]

\* return { response, toolCalls, debugInfo }
Returns(p, response, defined, toolCalls) ==
  /\ outcome' = [outcome EXCEPT ![p] =
       [status |-> "returned", response |-> response, toolCallsDefined |-> defined,
        toolCalls |-> toolCalls, message |-> ""]]
  /\ call' = [call EXCEPT ![p] = IdleCall]
  /\ request' = [request EXCEPT ![p] = NoRequest]

\* push the final assistant response, trim the history, return
Finishes(p, history, owner, assistantMessage, defined, toolCalls) ==
  LET h == Append(history, AssistantMessage(assistantMessage, <<>>))
      o == Append(owner, trace[p].turn)
  IN  /\ conversationHistory' = trimHistory(h)
      /\ historyOwner' = trimHistory(o)
      /\ Returns(p, assistantMessage, defined, toolCalls)

\* the code after the while loop, the history being `history`
AfterLoop(p, history, owner, assistantMessage, defined, toolCalls) ==
  IF assistantMessage = ""
  THEN /\ conversationHistory' = history
       /\ historyOwner' = owner
       /\ Throws(p, "No final response from AI assistant")
  ELSE Finishes(p, history, owner, assistantMessage, defined, toolCalls)

\* result = await backendRpc.call(llmChat, { messages, topicContext, toolResults })
CallsBackend(p, history, owner, round) ==
  /\ conversationHistory' = history
  /\ historyOwner' = owner
  /\ call' = [call EXCEPT ![p] = [@ EXCEPT !.pc = "awaitRound", !.toolRound = round]]
  /\ request' = [request EXCEPT ![p] =
       [messages |-> history, toolResults |-> call[p].toolResults]]
  /\ UNCHANGED outcome

\* push the assistant message with its tool calls and start executing them
StartsTools(p, assistantMessage, toolCalls, rootNode, first) ==
  LET results == executeAll(toolCalls, rootNode)
  IN  /\ conversationHistory' =
           Append(conversationHistory, AssistantMessage(assistantMessage, toolCalls))
      /\ historyOwner' = Append(historyOwner, trace[p].turn)
      /\ call' = [call EXCEPT ![p] =
           [@ EXCEPT !.pc = IF first THEN "joinInitial" ELSE "joinRound",
                     !.rootNode = rootNode,
                     !.assistantMessage = assistantMessage,
                     !.toolCalls = toolCalls,
                     !.toolResults = IF first THEN results ELSE @,
                     !.newToolResults = IF first THEN @ ELSE results]]
      /\ UNCHANGED <<request, outcome>>

\* the first rejection among the settled results of Promise.all, if any
RECURSIVE firstRejection(_)
firstRejection(results) ==
  IF Len(results) = 0 THEN ""
  ELSE IF IsRejection(results[1]) THEN results[1].rejection
  ELSE firstRejection(Tail(results))

AnyRejection(results) == \E i \in 1..Len(results) : IsRejection(results[i])

\* what a step adds to the history variable trace[p]
Traced(p, replyKinds, offeredIds, executedIds, newRequests) ==
  trace' = [trace EXCEPT ![p] =
    [@ EXCEPT !.replies = @ \o replyKinds,
              !.offered = @ \o offeredIds,
              !.executed = @ \o executedIds,
              !.requests = @ + newRequests]]

\* ------------------------------------------------------------------------
\* Actions
\* ------------------------------------------------------------------------

\* sendMessage up to its first await: push the user message, call the gateway
SendMessage(p, in) ==
  /\ call[p].pc = "idle"
  /\ \A q \in Slots : q < p => call[q].pc # "idle"
  /\ turns < MaxTurns
  /\ LET messageContent ==
           IF in.topicContext # ""
           THEN "Context:\n" \o in.topicContext \o "\n\nUser Question: " \o in.userMessage
           ELSE in.userMessage
         h == Append(conversationHistory, UserMessage(messageContent))
     IN  /\ conversationHistory' = h
         /\ historyOwner' = Append(historyOwner, turns + 1)
         /\ call' = [call EXCEPT ![p] =
              [IdleCall EXCEPT !.pc = "awaitInitial",
                               !.userMessage = in.userMessage,
                               !.topicContext = in.topicContext,
                               !.currentNode = in.currentNode]]
         /\ request' = [request EXCEPT ![p] = [messages |-> h, toolResults |-> <<>>]]
         /\ outcome' = [outcome EXCEPT ![p] = NoOutcome]
         /\ trace' = [trace EXCEPT ![p] =
              [NoTrace EXCEPT !.turn = turns + 1, !.focus = in.currentNode,
                              !.requests = 1]]
  /\ turns' = turns + 1
  /\ UNCHANGED <<toolReplies, probe>>

\* the initial request settles: lines 785-842, up to await Promise.all
InitialReply(p, result) ==
  /\ call[p].pc = "awaitInitial"
  /\ Len(result.toolCalls) > 0 => toolReplies < MaxToolReplies
  /\ toolReplies' = IF Len(result.toolCalls) > 0 THEN toolReplies + 1 ELSE toolReplies
  /\ UNCHANGED <<turns, probe>>
  /\ IF result.status = "rejected"
     THEN /\ Throws(p, result.message)
          /\ UNCHANGED <<conversationHistory, historyOwner>>
     ELSE IF result.status = "null" \/ (result.response = "" /\ ~result.toolCallsDefined)
     THEN /\ Throws(p, "No response from AI assistant")
          /\ UNCHANGED <<conversationHistory, historyOwner>>
     ELSE IF Len(result.toolCalls) > 0
     THEN IF call[p].currentNode = NoNode
          THEN /\ Returns(p, "Tool execution not available (no topic context)",
                          TRUE, result.toolCalls)
               /\ UNCHANGED <<conversationHistory, historyOwner>>
          ELSE StartsTools(p, result.response, result.toolCalls,
                           findRootNode(call[p].currentNode), TRUE)
     ELSE Finishes(p, conversationHistory, historyOwner, result.response,
                   result.toolCallsDefined, result.toolCalls)
  /\ Traced(p, <<ReplyKind(result)>>, Ids(result.toolCalls),
            IF call'[p].pc = "joinInitial" THEN Ids(call'[p].toolCalls) ELSE <<>>, 0)

\* Promise.all of the initial round settles: push the tool results, enter the loop
JoinInitial(p) ==
  /\ call[p].pc = "joinInitial"
  /\ UNCHANGED <<turns, toolReplies, probe>>
  /\ LET c == call[p]
         h == conversationHistory \o toolMessages(c.toolResults)
         o == historyOwner \o [i \in 1..Len(c.toolResults) |-> trace[p].turn]
     IN  IF AnyRejection(c.toolResults)
         THEN /\ Throws(p, firstRejection(c.toolResults))
              /\ UNCHANGED <<conversationHistory, historyOwner>>
              /\ Traced(p, <<>>, <<>>, <<>>, 0)
         ELSE IF loopContinues(0)
         THEN /\ CallsBackend(p, h, o, 1)
              /\ Traced(p, <<>>, <<>>, <<>>, 1)
         ELSE /\ AfterLoop(p, h, o, c.assistantMessage, TRUE, c.toolCalls)
              /\ Traced(p, <<>>, <<>>, <<>>, 0)

\* a request of the loop settles: lines 870-906, up to await Promise.all
RoundReply(p, result) ==
  /\ call[p].pc = "awaitRound"
  /\ Len(result.toolCalls) > 0 => toolReplies < MaxToolReplies
  /\ toolReplies' = IF Len(result.toolCalls) > 0 THEN toolReplies + 1 ELSE toolReplies
  /\ UNCHANGED <<turns, probe>>
  /\ IF result.status = "rejected"
     THEN /\ Throws(p, result.message)
          /\ UNCHANGED <<conversationHistory, historyOwner>>
     ELSE IF result.status = "null"
     THEN /\ Throws(p, "No response from AI assistant")
          /\ UNCHANGED <<conversationHistory, historyOwner>>
     ELSE IF result.response # "" \/ ~result.toolCallsDefined \/ Len(result.toolCalls) = 0
     THEN AfterLoop(p, conversationHistory, historyOwner, result.response,
                    result.toolCallsDefined, result.toolCalls)
     ELSE StartsTools(p, result.response, result.toolCalls, call[p].rootNode, FALSE)
  /\ Traced(p, <<ReplyKind(result)>>, Ids(result.toolCalls),
            IF call'[p].pc = "joinRound" THEN Ids(call'[p].toolCalls) ELSE <<>>, 0)

\* Promise.all of a loop round settles: push the results, next iteration or exit
JoinRound(p) ==
  /\ call[p].pc = "joinRound"
  /\ UNCHANGED <<turns, toolReplies, probe>>
  /\ LET c == call[p]
         h == conversationHistory \o toolMessages(c.newToolResults)
         o == historyOwner \o [i \in 1..Len(c.newToolResults) |-> trace[p].turn]
     IN  IF AnyRejection(c.newToolResults)
         THEN /\ Throws(p, firstRejection(c.newToolResults))
              /\ UNCHANGED <<conversationHistory, historyOwner>>
              /\ Traced(p, <<>>, <<>>, <<>>, 0)
         ELSE IF loopContinues(c.toolRound)
         THEN /\ CallsBackend(p, h, o, c.toolRound + 1)
              /\ Traced(p, <<>>, <<>>, <<>>, 1)
         ELSE /\ AfterLoop(p, h, o, c.assistantMessage, TRUE, c.toolCalls)
              /\ Traced(p, <<>>, <<>>, <<>>, 0)

\* a clearHistory that keeps the first two messages
ClearHistory_KeepsTwo ==
  /\ conversationHistory' = SubSeq(conversationHistory, 1, Min(2, Len(conversationHistory)))
  /\ historyOwner' = SubSeq(historyOwner, 1, Min(2, Len(historyOwner)))
  /\ UNCHANGED <<call, request, outcome, trace, turns, toolReplies, probe>>

\* clearHistory(): keep only the system message
ClearHistory ==
  /\ conversationHistory' = <<conversationHistory[1]>>
  /\ historyOwner' = <<historyOwner[1]>>
  /\ UNCHANGED <<call, request, outcome, trace, turns, toolReplies, probe>>

\* ------------------------------------------------------------------------
\* generateSuggestedQuestions
\* ------------------------------------------------------------------------

\* texts the gateway may answer with
ThreeQuestions == "Here you go:\n[\"Is it on?\", \"Since when?\", \"Why?\"]\nAnything else?"

SevenQuestions == "[\"q1\", \"q2\", \"q3\", \"q4\", \"q5\", \"q6\", \"q7\"]"

NotJson == "Try [Is it on?] or [Since when?]"

NoArray == "I cannot suggest questions."

\* what the gateway call of generateSuggestedQuestions can yield
SuggestionReplies ==
  { [status |-> "rejected", response |-> ""], [status |-> "null", response |-> ""] }
  \cup { [status |-> "ok", response |-> text] :
           text \in {"", NoArray, NotJson, ThreeQuestions, SevenQuestions} }

\* response.match(/\[[\s\S]*\]/): from the first "[" to the last "]" after it
matchArray(text) ==
  LET opens  == {i \in 1..Len(text) : SubSeq(text, i, i) = "["}
      first  == CHOOSE i \in opens : \A j \in opens : i <= j
      closes == {i \in 1..Len(text) : SubSeq(text, i, i) = "]" /\ i > first}
      last   == CHOOSE i \in closes : \A j \in closes : j <= i
  IN  IF opens = {} THEN [found |-> FALSE, text |-> ""]
      ELSE IF closes = {} THEN [found |-> FALSE, text |-> ""]
      ELSE [found |-> TRUE, text |-> SubSeq(text, first, last)]

\* JSON.parse on the matched texts; anything else is a SyntaxError
JSONparseArray(text) ==
  CASE text = "[\"Is it on?\", \"Since when?\", \"Why?\"]" ->
         [ok |-> TRUE, value |-> <<"Is it on?", "Since when?", "Why?">>]
    [] text = SevenQuestions ->
         [ok |-> TRUE, value |-> <<"q1", "q2", "q3", "q4", "q5", "q6", "q7">>]
    [] OTHER -> [ok |-> FALSE, value |-> <<>>]

\* questions.slice(0, 5)
maxQuestions == 5

\* the first sentence of the question prompt; the topic context that follows
\* it is text of the request only
questionPrompt ==
  "Based on this MQTT topic and its context, suggest 3-5 brief, relevant questions"

\* a generateSuggestedQuestions without its outer try/catch
generateSuggestedQuestions_NoCatch(response) ==
  IF response.status = "rejected" THEN [threw |-> TRUE, questions |-> <<>>]
  ELSE IF response.status = "null" \/ response.response = ""
  THEN [threw |-> FALSE, questions |-> <<>>]
  ELSE LET jsonMatch == matchArray(response.response)
       IN  IF jsonMatch.found /\ JSONparseArray(jsonMatch.text).ok
           THEN [threw |-> FALSE,
                 questions |-> sliceTo(JSONparseArray(jsonMatch.text).value, maxQuestions)]
           ELSE [threw |-> FALSE, questions |-> <<>>]

\* what generateSuggestedQuestions settles with, given the gateway's answer
generateSuggestedQuestions(response) ==
  IF response.status = "rejected" THEN [threw |-> FALSE, questions |-> <<>>]
  ELSE IF response.status = "null" \/ response.response = ""
  THEN [threw |-> FALSE, questions |-> <<>>]
  ELSE LET jsonMatch == matchArray(response.response)
       IN  IF jsonMatch.found /\ JSONparseArray(jsonMatch.text).ok
           THEN [threw |-> FALSE,
                 questions |-> sliceTo(JSONparseArray(jsonMatch.text).value, maxQuestions)]
           ELSE [threw |-> FALSE, questions |-> <<>>]

\* generateSuggestedQuestions(topic): a request with the system message and
\* the question prompt, outside the conversation; probe holds what it sent,
\* what the gateway answered and what it settled with
GenerateSuggestedQuestions(response) ==
  LET settled == generateSuggestedQuestions(response)
  IN  /\ probe' = [NoProbe EXCEPT !.op = "generateSuggestedQuestions",
                                  !.name = response.status, !.text = response.response,
                                  !.messages = <<conversationHistory[1],
                                                 UserMessage(questionPrompt)>>,
                                  !.questions = settled.questions,
                                  !.threw = settled.threw]
      /\ UNCHANGED <<conversationHistory, historyOwner, call, request, outcome, trace,
                     turns, toolReplies>>

\* ------------------------------------------------------------------------
\* Specifications
\* ------------------------------------------------------------------------

\* callers that await each sendMessage before the next call
Next ==
  \/ \E p \in Slots, in \in TurnInputs : AllIdle /\ SendMessage(p, in)
  \/ \E p \in Slots : \E result \in GatewayResults(toolReplies + 1) : InitialReply(p, result)
  \/ \E p \in Slots : JoinInitial(p)
  \/ \E p \in Slots : \E result \in GatewayResults(toolReplies + 1) : RoundReply(p, result)
  \/ \E p \in Slots : JoinRound(p)
  \/ AllIdle /\ ClearHistory

Spec == Init /\ [][Next]_vars

\* callers that do not wait: sendMessage and clearHistory may be called while
\* other sendMessage activations are suspended at an await
NextOverlap ==
  \/ \E p \in Slots, in \in TurnInputs : SendMessage(p, in)
  \/ \E p \in Slots : \E result \in GatewayResults(toolReplies + 1) :
       /\ Len(result.toolCalls) > 0 => toolReplies < MaxOverlapToolReplies
       /\ InitialReply(p, result)
  \/ \E p \in Slots : JoinInitial(p)
  \/ \E p \in Slots : \E result \in GatewayResults(toolReplies + 1) :
       /\ Len(result.toolCalls) > 0 => toolReplies < MaxOverlapToolReplies
       /\ RoundReply(p, result)
  \/ \E p \in Slots : JoinRound(p)
  \/ ClearHistory

SpecOverlap == Init /\ [][NextOverlap]_vars

\* the gateway settles every request (it resolves or rejects), and the
\* microtask that resumes sendMessage after Promise.all always runs
GatewaySettles(p) ==
  \E result \in GatewayResults(toolReplies + 1) :
    InitialReply(p, result) \/ RoundReply(p, result)

FairSpec ==
  /\ Init /\ [][Next]_vars
  /\ \A p \in Slots :
       WF_vars(GatewaySettles(p)) /\ WF_vars(JoinInitial(p)) /\ WF_vars(JoinRound(p))


\* callers that await each call and also ask for suggested questions, in
\* behaviours with fewer turns and tool replies
NextSuggest ==
  \/ \E p \in Slots, in \in TurnInputs :
       AllIdle /\ turns < MaxSuggestTurns /\ SendMessage(p, in)
  \/ \E p \in Slots : \E result \in GatewayResults(toolReplies + 1) :
       /\ Len(result.toolCalls) > 0 => toolReplies < MaxSuggestToolReplies
       /\ InitialReply(p, result)
  \/ \E p \in Slots : JoinInitial(p)
  \/ \E p \in Slots : \E result \in GatewayResults(toolReplies + 1) :
       /\ Len(result.toolCalls) > 0 => toolReplies < MaxSuggestToolReplies
       /\ RoundReply(p, result)
  \/ \E p \in Slots : JoinRound(p)
  \/ AllIdle /\ ClearHistory
  \/ \E response \in SuggestionReplies : AllIdle /\ GenerateSuggestedQuestions(response)

SpecSuggest == Init /\ [][NextSuggest]_vars

\* ------------------------------------------------------------------------
\* Direct calls of the tree and token operations, one at a time, the way
\* the unit tests call them: (service as any).listChildren('home', 2, root)
\* ------------------------------------------------------------------------

\* index of the first node of the valued neighbourhood under "house"
FirstOfHouse == 27

\* nodes whose paths are asked for: the named ones outside "house" and one
\* child of "many"
ProbedNodes == {n \in Nodes : n < FirstOfHouse \/ n = FirstOfMany}

\* paths no node of the tree has
AbsentPaths == {"home/attic", "home/bed", "home//bedroom", "lab//sensor", "sensor"}

ProbePaths == {Tree[n].path : n \in ProbedNodes} \cup AbsentPaths

\* topic arguments that are no string
AbsentTopics == {Undefined, Null}

Limits == (0 - 1)..MaxLimit

\* the rootNode argument: null, the tree root, or the node "home"
Roots == {NoNode, 1, 2}

\* a text of n characters
RECURSIVE filler(_)
filler(n) == IF n <= 0 THEN "" ELSE filler(n - 1) \o ToString(n % 10)

Texts == {filler(n) : n \in 0..MaxTextLen}

Budgets == 0..MaxBudget

\* topics whose context is generated: the root, topics that are alone under
\* their parent, the valued neighbourhood and a child of "many"
ContextTopics == {1, 6, 11, 14, 28, 29, 30, 31, 33, 38, FirstOfMany}

\* configured budgets; 0 is a service constructed without one
ContextBudgets == 0..MaxContextBudget

\* the messages of a turn with one round of tool invocations, as sendMessage
\* builds them
ToolConversation ==
  <<SystemMessage, UserMessage("Is the kitchen idle?"),
    AssistantMessage("", WithIds(LookupBatch, 1))>>
  \o toolMessages(executeAll(WithIds(LookupBatch, 1), 1))
  \o <<AssistantMessage("It is idle.", <<>>)>>

\* the message lists handed to the backend client: what the requests of that
\* turn carry, and the same without the system message
MessageLists ==
  {SubSeq(ToolConversation, 1, n) : n \in 0..Len(ToolConversation)}
  \cup {SubSeq(ToolConversation, 2, n) : n \in 2..Len(ToolConversation)}

Providers == {"openai", "gemini"}

ProbeArguments ==
  {ArgsKitchen, ArgsAttic, ArgsRoot, ArgsMalformed, ArgsLogNegative, ArgsLogZero,
   ArgsNoTopic}

ProbeNames ==
  {"query_topic_history", "get_topic", "list_children", "list_parents", "search_topics"}

\* the state of the conversation, which no direct call touches
sendState == <<conversationHistory, historyOwner, call, request, outcome, trace,
               turns, toolReplies>>

\* a fresh service on which nothing was called yet
Fresh == probe = NoProbe /\ turns = 0

FindRootNode(node) ==
  /\ Fresh
  /\ probe' = [NoProbe EXCEPT !.op = "findRootNode", !.rootNode = node,
                              !.found = findRootNode(node)]
  /\ UNCHANGED sendState

FindTopicNode(topicPath, currentNode) ==
  /\ Fresh
  /\ probe' = [NoProbe EXCEPT !.op = "findTopicNode", !.topicPath = topicPath,
                              !.rootNode = currentNode,
                              !.found = findTopicNode(topicPath, currentNode)]
  /\ UNCHANGED sendState

TruncateToTokenLimit(text, tokenLimit) ==
  LET limited == truncateToTokenLimit(text, tokenLimit)
  IN  /\ Fresh
      /\ probe' = [NoProbe EXCEPT !.op = "truncateToTokenLimit", !.text = text,
                                  !.limit = tokenLimit, !.truncated = limited.truncated,
                                  !.result = limited.text]
      /\ UNCHANGED sendState

\* the node a dispatcher operation resolves
resolved(topicPath, rootNode) ==
  IF rootNode # NoNode THEN findTopicNode(topicPath, rootNode) ELSE NoNode

\* the arrays of the resolved node that the operations read, as the call of
\* operation op leaves them
arraysAfter(op, node, limit) ==
  IF node = NoNode THEN NoProbe.after
  ELSE [ history |-> IF op = "queryTopicHistory" /\ Len(Tree[node].history) > 0
                     THEN historyAfterQuery(Tree[node].history, limit)
                     ELSE Tree[node].history,
         edges   |-> IF op = "listChildren" /\ Len(Tree[node].edges) > 0
                     THEN edgesAfterListing(Tree[node].edges, limit)
                     ELSE Tree[node].edges ]

\* Each of the four operations is called twice with the same arguments, as
\* in the test "tools should return consistent data for same topic"; the
\* second call reads the arrays as the first one left them.
QueryTopicHistory(topicPath, limit, rootNode) ==
  LET node  == resolved(topicPath, rootNode)
      after == arraysAfter("queryTopicHistory", node, limit)
  IN  /\ Fresh
      /\ probe' = [NoProbe EXCEPT !.op = "queryTopicHistory", !.topicPath = topicPath,
                                  !.limit = limit, !.rootNode = rootNode, !.found = node,
                                  !.result = queryTopicHistory(topicPath, limit, rootNode),
                                  !.after = after,
                                  !.again = IF node = NoNode
                                            THEN queryTopicHistory(topicPath, limit, rootNode)
                                            ELSE historyText(topicPath, limit, after.history)]
      /\ UNCHANGED sendState

GetTopic(topicPath, rootNode) ==
  LET node == resolved(topicPath, rootNode)
  IN  /\ Fresh
      /\ probe' = [NoProbe EXCEPT !.op = "getTopic", !.topicPath = topicPath,
                                  !.rootNode = rootNode, !.found = node,
                                  !.result = getTopic(topicPath, rootNode),
                                  !.after = arraysAfter("getTopic", node, 0),
                                  !.again = getTopic(topicPath, rootNode)]
      /\ UNCHANGED sendState

ListChildren(topicPath, limit, rootNode) ==
  LET node  == resolved(topicPath, rootNode)
      after == arraysAfter("listChildren", node, limit)
  IN  /\ Fresh
      /\ probe' = [NoProbe EXCEPT !.op = "listChildren", !.topicPath = topicPath,
                                  !.limit = limit, !.rootNode = rootNode, !.found = node,
                                  !.result = listChildren(topicPath, limit, rootNode),
                                  !.after = after,
                                  !.again = IF node = NoNode
                                            THEN listChildren(topicPath, limit, rootNode)
                                            ELSE childrenText(topicPath, limit, after.edges)]
      /\ UNCHANGED sendState

ListParents(topicPath, rootNode) ==
  LET node == resolved(topicPath, rootNode)
  IN  /\ Fresh
      /\ probe' = [NoProbe EXCEPT !.op = "listParents", !.topicPath = topicPath,
                                  !.rootNode = rootNode, !.found = node,
                                  !.result = listParents(topicPath, rootNode),
                                  !.after = arraysAfter("listParents", node, 0),
                                  !.again = listParents(topicPath, rootNode)]
      /\ UNCHANGED sendState

ExecuteTool(name, arguments, rootNode) ==
  LET settled == executeTool([id |-> "call_1", name |-> name, arguments |-> arguments],
                             rootNode)
  IN  /\ Fresh
      /\ probe' = [NoProbe EXCEPT !.op = "executeTool", !.name = name, !.text = arguments,
                                  !.rootNode = rootNode, !.result = settled.content]
      /\ UNCHANGED sendState

\* generateTopicContext(topic) on a service constructed with
\* { neighboringTopicsTokenLimit: configured }
GenerateTopicContext(topic, configured) ==
  LET tokenLimit == neighboringTopicsTokenLimit(configured)
  IN  /\ Fresh
      /\ probe' = [NoProbe EXCEPT !.op = "generateTopicContext", !.rootNode = topic,
                                  !.configured = configured, !.limit = tokenLimit,
                                  !.neighbors = neighborsOf(topic, tokenLimit),
                                  !.result = generateTopicContext(topic, tokenLimit)]
      /\ UNCHANGED sendState

\* chat(messages) on a backend client of the given provider: the messages of
\* the request it posts
Chat(provider, messages) ==
  /\ Fresh
  /\ probe' = [NoProbe EXCEPT !.op = "chat", !.name = provider, !.messages = messages,
                              !.forwarded = chat(provider, messages)]
  /\ UNCHANGED sendState

NextQueries ==
  \/ \E node \in Nodes \cup {NoNode} : FindRootNode(node)
  \/ \E topicPath \in ProbePaths, currentNode \in Nodes \cup {NoNode} :
       FindTopicNode(topicPath, currentNode)
  \/ \E text \in Texts, tokenLimit \in Budgets : TruncateToTokenLimit(text, tokenLimit)
  \/ \E topicPath \in ProbePaths, limit \in Limits, rootNode \in Roots :
       QueryTopicHistory(topicPath, limit, rootNode)
  \/ \E topicPath \in ProbePaths, rootNode \in Roots : GetTopic(topicPath, rootNode)
  \/ \E topicPath \in ProbePaths \cup AbsentTopics, limit \in Limits, rootNode \in Roots :
       ListChildren(topicPath, limit, rootNode)
  \/ \E topicPath \in ProbePaths, rootNode \in Roots : ListParents(topicPath, rootNode)
  \/ \E name \in ProbeNames, arguments \in ProbeArguments, rootNode \in Roots :
       ExecuteTool(name, arguments, rootNode)
  \/ \E topic \in ContextTopics, configured \in ContextBudgets :
       GenerateTopicContext(topic, configured)
  \/ \E provider \in Providers, messages \in MessageLists : Chat(provider, messages)

SpecQueries == Init /\ [][NextQueries]_vars

\* ------------------------------------------------------------------------
\* Properties
\* ------------------------------------------------------------------------

Last(s) == s[Len(s)]

\* how often x occurs in the sequence s
Count(s, x) == Cardinality({i \in DOMAIN s : s[i] = x})

Finished(p) == outcome[p].status # "none"

\* every reply of the turn so far carried tool invocations and no text
AllToolOnly(p) == \A i \in DOMAIN trace[p].replies : trace[p].replies[i] = "tools"

\* C1: against a gateway that answers every request with tool invocations and
\* no text, a turn performs exactly 5 request/response rounds and then stops:
\* it never issues a 6th request.
C1_StopsAfterFiveRounds ==
  \A p \in Slots :
    AllToolOnly(p) =>
      /\ trace[p].requests <= maxToolRounds
      /\ (Finished(p) /\ trace[p].focus # NoNode /\ trace[p].replies # <<>>)
           => Len(trace[p].replies) = maxToolRounds

\* the turn used up its rounds and the last reply still carried no text
CapReachedWithoutText(p) ==
  /\ Finished(p)
  /\ Len(trace[p].replies) = maxToolRounds + 1
  /\ Last(trace[p].replies) = "tools"

\* C2: when the round cap is reached without a plain-text reply, sendMessage
\* does not throw: it returns a partial text or an exhaustion notice.
C2_CapReachedIsNonFatal ==
  \A p \in Slots :
    CapReachedWithoutText(p) =>
      /\ outcome[p].status = "returned"
      /\ outcome[p].response # ""

\* C3: within a turn (with a focus node), every tool invocation the gateway
\* returned has been executed exactly once.
C3_EveryInvocationExecutedOnce ==
  \A p \in Slots :
    trace[p].focus # NoNode =>
      \A i \in DOMAIN trace[p].offered :
        Count(trace[p].executed, trace[p].offered[i]) = 1

\* m ends with the assistant message carrying toolCalls, followed by exactly
\* one tool message per invocation, with its id, in invocation order
PairedTail(m, toolCalls) ==
  LET k == Len(toolCalls)
      n == Len(m)
  IN  /\ n >= k + 1
      /\ m[n - k].role = "assistant"
      /\ m[n - k].tool_calls = toolCalls
      /\ \A i \in 1..k :
           /\ m[n - k + i].role = "tool"
           /\ m[n - k + i].tool_call_id = toolCalls[i].id
      /\ \A i \in 1..k :
           Cardinality({j \in DOMAIN m : m[j].role = "tool"
                                         /\ m[j].tool_call_id = toolCalls[i].id}) = 1

Joining(p) == call[p].pc \in {"joinInitial", "joinRound"}

\* C4: when a round's tool invocations are executed, the assistant message
\* carrying them is in the history first (no result of theirs precedes it);
\* the next gateway request is sent only with that message followed by exactly
\* one tool-result message per invocation, with its id, in invocation order.
C4_AssistantThenResultsBeforeNextRequest ==
  \A p \in Slots :
    /\ Joining(p) =>
         /\ Len(call[p].toolCalls) > 0
         /\ Last(conversationHistory).role = "assistant"
         /\ Last(conversationHistory).tool_calls = call[p].toolCalls
         /\ trace[p].executed = trace[p].offered
         /\ \A j \in DOMAIN conversationHistory, i \in DOMAIN call[p].toolCalls :
              conversationHistory[j].tool_call_id # call[p].toolCalls[i].id
    /\ call[p].pc = "awaitRound" =>
         /\ PairedTail(request[p].messages, call[p].toolCalls)
         /\ request[p].messages = conversationHistory

\* a round with several invocations has been executed and its results sent on
C4_Witness ==
  \E p \in Slots :
    /\ call[p].pc = "awaitRound"
    /\ call[p].toolRound = 2
    /\ Len(call[p].toolCalls) = 3
    /\ PairedTail(request[p].messages, call[p].toolCalls)

\* the gateway call of the turn's last round rejected or yielded no result
GatewayFailed(p) ==
  /\ outcome[p].status = "threw"
  /\ trace[p].replies # <<>>
  /\ Last(trace[p].replies) \in {"rejected", "null"}

\* C5: after a gateway failure sendMessage has thrown and the history holds
\* no message left over from the failed turn, so a retry is safe.
C5_FailedTurnLeavesNoMessage ==
  \A p \in Slots :
    GatewayFailed(p) =>
      \A i \in DOMAIN historyOwner : historyOwner[i] # trace[p].turn

\* C6: the messages of one turn form one contiguous block of the history,
\* also when sendMessage calls overlap.
C6_TurnsAreContiguous ==
  \A i, j, k \in DOMAIN historyOwner :
    (i < j /\ j < k /\ historyOwner[i] = historyOwner[k])
      => historyOwner[j] = historyOwner[i]

\* C8: after every completed turn the history is the system message followed
\* by at most the 10 most recent messages.
C8_TrimmedAfterEveryCompletedTurn ==
  \A p \in Slots :
    outcome[p].status = "returned" =>
      /\ conversationHistory[1] = SystemMessage
      /\ Len(conversationHistory) <= keepLast + 1

\* the longest list of invocations a reply carries
LargestBatch == CHOOSE n \in {Len(b) : b \in Batches} : \A b \in Batches : Len(b) <= n

TreeRoot == CHOOSE n \in Nodes : Tree[n].parent = NoNode

NodeWithPath(path) ==
  IF \E n \in Nodes : Tree[n].path = path
  THEN CHOOSE n \in Nodes : Tree[n].path = path
  ELSE NoNode

ToolNames == {"query_topic_history", "get_topic", "list_children", "list_parents"}

\* the settled results of the round being joined
JoinedResults(p) ==
  IF call[p].pc = "joinInitial" THEN call[p].toolResults ELSE call[p].newToolResults

\* C9: every executed invocation is resolved from the root of the whole tree,
\* found from the focus node by its parent links: a path resolves to the node
\* that has it wherever that node lies, also outside the focus node's subtree.
C9_ResolvedFromTreeRoot ==
  \A p \in Slots :
    Joining(p) =>
      /\ call[p].rootNode = TreeRoot
      /\ \A i \in DOMAIN call[p].toolCalls :
           LET tc == transformToolCall(call[p].toolCalls[i])
               args == JSONparse(tc.arguments)
               r == JoinedResults(p)[i]
           IN  (args.ok /\ tc.name \in ToolNames) =>
                 /\ findTopicNode(args.topic, call[p].rootNode) = NodeWithPath(args.topic)
                 /\ ~IsRejection(r)
                 /\ r.content = executeTool(tc, TreeRoot).content
                 /\ (r.content = "Topic not found: " \o args.topic)
                      <=> (NodeWithPath(args.topic) = NoNode)

\* an invocation for a node in a sibling branch of the focus node was resolved
C9_Witness ==
  \E p \in Slots :
    /\ Joining(p)
    /\ call[p].currentNode = 3
    /\ \E i \in DOMAIN call[p].toolCalls :
         LET tc == transformToolCall(call[p].toolCalls[i])
         IN  /\ tc.name = "get_topic"
             /\ JSONparse(tc.arguments).topic = "home/kitchen"
             /\ findTopicNode("home/kitchen", call[p].currentNode) = NoNode
             /\ JoinedResults(p)[i].content
                  = "Topic: home/kitchen\nValue: idle\nRetained: true\nMessages: 1"

StartsWith(text, prefix) ==
  Len(text) >= Len(prefix) /\ SubSeq(text, 1, Len(prefix)) = prefix

\* C10: an invocation with an unparsable argument payload or an unknown
\* operation name yields an error text with that invocation's id; nothing is
\* thrown, and every invocation of the round has its own result message
\* before the next request.
C10_BadInvocationYieldsErrorText ==
  \A p \in Slots :
    /\ Joining(p) =>
         /\ Len(JoinedResults(p)) = Len(call[p].toolCalls)
         /\ \A i \in DOMAIN call[p].toolCalls :
              LET tc == transformToolCall(call[p].toolCalls[i])
                  r == JoinedResults(p)[i]
              IN  /\ ~IsRejection(r)
                  /\ r.tool_call_id = call[p].toolCalls[i].id
                  /\ ~JSONparse(tc.arguments).ok
                       => StartsWith(r.content, "Error executing tool: ")
                  /\ (JSONparse(tc.arguments).ok /\ tc.name \notin ToolNames)
                       => r.content = "Error: Unknown tool '" \o tc.name \o "'"
    /\ call[p].pc = "awaitRound" =>
         \A i \in DOMAIN call[p].toolCalls :
           \E j \in DOMAIN request[p].messages :
             /\ request[p].messages[j].role = "tool"
             /\ request[p].messages[j].tool_call_id = call[p].toolCalls[i].id
    /\ outcome[p].status = "threw" =>
         outcome[p].message \in {"LLM API error", "No response from AI assistant",
                                 "No final response from AI assistant"}

\* a round with an unparsable, an unknown and a well-formed invocation was
\* executed, and all three results went into the next request
C10_Witness ==
  \E p \in Slots :
    /\ call[p].pc = "awaitRound"
    /\ Len(call[p].toolCalls) = 3
    /\ \E j \in DOMAIN request[p].messages :
         /\ request[p].messages[j].tool_call_id = call[p].toolCalls[1].id
         /\ StartsWith(request[p].messages[j].content, "Error executing tool: ")
    /\ \E j \in DOMAIN request[p].messages :
         /\ request[p].messages[j].tool_call_id = call[p].toolCalls[2].id
         /\ request[p].messages[j].content = "Error: Unknown tool 'search_topics'"
    /\ \E j \in DOMAIN request[p].messages :
         /\ request[p].messages[j].tool_call_id = call[p].toolCalls[3].id
         /\ request[p].messages[j].content = "Topic not found: home/attic"

\* ------------------------------------------------------------------------
\* Properties of the tree and token operations (SpecQueries)
\* ------------------------------------------------------------------------

Contains(text, part) ==
  \/ Len(part) = 0
  \/ \E i \in 1..(Len(text) - Len(part) + 1) : SubSeq(text, i, i + Len(part) - 1) = part

\* node n is root or lies below it
RECURSIVE Under(_, _)
Under(n, root) ==
  IF n = NoNode THEN FALSE
  ELSE IF n = root THEN TRUE
  ELSE Under(Tree[n].parent, root)

\* some node at or below root has this path
Resolvable(path, root) == \E n \in Nodes : Under(n, root) /\ Tree[n].path = path

Dispatched == {"queryTopicHistory", "getTopic", "listChildren", "listParents"}

\* C11: each of the four dispatcher operations, called with a path that no node
\* under the supplied root has, or with no root at all, returns a text that
\* contains "not found" and the requested path (it returns: nothing is thrown).
C11_UnresolvedPathIsReported ==
  (probe.op \in Dispatched /\ ~Resolvable(probe.topicPath, probe.rootNode))
    => /\ Contains(probe.result, "not found")
       /\ Contains(probe.result, probe.topicPath)

C11_Witness ==
  /\ probe.op = "getTopic"
  /\ probe.topicPath = "home/attic"
  /\ probe.rootNode = 1
  /\ probe.result = "Topic not found: home/attic"

\* the nodes reached from node by matching the segments of rest against child
\* names, one level per step; below the first level a segment follows a "/"
RECURSIVE Descend(_, _, _)
Descend(node, rest, top) ==
  IF rest = "" THEN {node}
  ELSE UNION {
         LET edge == Tree[node].edges[i]
             segment == (IF top THEN "" ELSE "/") \o edge.name
             after == SubSeq(rest, Len(segment) + 1, Len(rest))
         IN  IF /\ StartsWith(rest, segment)
                /\ (after = "" \/ StartsWith(after, "/"))
             THEN Descend(edge.node, after, FALSE)
             ELSE {} : i \in DOMAIN Tree[node].edges }

\* C12: resolving a path from the tree root returns the one node whose path()
\* is that path, which is the node reached by matching the path's segments
\* against child names level by level; a path no node has resolves to null.
C12_ResolvesToTheNodeWithThatPath ==
  (probe.op = "findTopicNode" /\ probe.rootNode = TreeRoot)
    => LET holders == {n \in Nodes : Tree[n].path = probe.topicPath}
       IN  IF holders = {}
           THEN probe.found = NoNode /\ Descend(TreeRoot, probe.topicPath, TRUE) = {}
           ELSE /\ holders = {probe.found}
                /\ Descend(TreeRoot, probe.topicPath, TRUE) = {probe.found}

C12_Witness ==
  /\ probe.op = "findTopicNode"
  /\ probe.rootNode = TreeRoot
  /\ probe.topicPath = "home/bedroom/sensor"
  /\ probe.found = 5

C14_RootIsTheParentlessAncestor ==
  probe.op = "findRootNode"
    => IF probe.rootNode = NoNode THEN probe.found = NoNode
       ELSE /\ probe.found # NoNode
            /\ Tree[probe.found].parent = NoNode
            /\ Under(probe.rootNode, probe.found)
            /\ Tree[probe.rootNode].parent = NoNode => probe.found = probe.rootNode
            /\ findRootNode(probe.found) = probe.found

C14_Witness ==
  /\ probe.op = "findRootNode"
  /\ probe.rootNode = 4
  /\ Tree[Tree[probe.rootNode].parent].parent # NoNode
  /\ probe.found = TreeRoot

\* what the claim C15 says of one truncateToTokenLimit call
FitsAndFlags ==
  /\ estimateTokens(probe.result) <= probe.limit
  /\ probe.truncated <=> estimateTokens(probe.text) > probe.limit

C16_OutputWithinTokenBudget ==
  /\ probe.op \in {"queryTopicHistory", "getTopic", "listChildren"}
       => estimateTokens(probe.result) <= toolTokenLimit
  /\ probe.op = "listParents" => estimateTokens(probe.result) <= parentsTokenLimit

\* positions at which a line of the text starts
LineStarts(text) ==
  {i \in 1..Len(text) : i = 1 \/ SubSeq(text, i - 1, i - 1) = "\n"}

\* the history entries rendered in a text: its "[timestamp] value" lines
RenderedEntries(text) ==
  {i \in LineStarts(text) :
     /\ SubSeq(text, i, i) = "["
     /\ SubSeq(text, i, i + 9) # "[TRUNCATED"}

\* C17: the history operation renders at most 20 entries whatever limit is
\* requested (larger than 20, zero or negative), and at most limit entries
\* when the limit is between 1 and 20.
C17_HistoryWindowIsClamped ==
  probe.op = "queryTopicHistory"
    => /\ Cardinality(RenderedEntries(probe.result)) <= historyMaxEntries
       /\ probe.limit \in 1..historyMaxEntries
            => Cardinality(RenderedEntries(probe.result)) <= probe.limit

\* the newest k entries of a history, oldest first, one line per entry
NewestWindow(messages, k) ==
  LET first == Len(messages) - k + 1
  IN  join([i \in 1..k |-> historyLine(messages[first + i - 1])], "\n")

\* C18: the history operation with limit L on a node holding n entries renders
\* the newest min(L, 20, n) entries, oldest first within that window, one
\* "[timestamp] value" line per entry, when those lines fit the token budget.
C18_HistoryRendersNewestWindow ==
  LET node == findTopicNode(probe.topicPath, probe.rootNode)
      messages == Tree[node].history
      k == Max(0, Min(Min(probe.limit, historyMaxEntries), Len(messages)))
  IN  (/\ probe.op = "queryTopicHistory"
       /\ probe.rootNode # NoNode
       /\ node # NoNode
       /\ Len(messages) > 0
       /\ estimateTokens(NewestWindow(messages, k)) <= toolTokenLimit)
        => probe.result = NewestWindow(messages, k)

\* the first k children of a node, one listing line each, in original order
FirstChildren(topicPath, edges, k) ==
  [i \in 1..k |-> childLine(topicPath, edges[i])]

\* C19: the children operation on a node with c children and a requested
\* limit L >= 1 lists exactly the first min(L, 50, c) children in their
\* original order.
C19_ListsExactlyFirstChildren ==
  LET node == findTopicNode(probe.topicPath, probe.rootNode)
      edges == Tree[node].edges
      k == Min(Min(probe.limit, childrenMaxEntries), Len(edges))
  IN  (/\ probe.op = "listChildren"
       /\ probe.rootNode # NoNode
       /\ node # NoNode
       /\ Len(edges) > 0
       /\ probe.limit >= 1)
        => probe.result = "Child topics (" \o ToString(k) \o "):\n"
                          \o join(FirstChildren(probe.topicPath, edges, k), "\n")

\* the lines of a text
RECURSIVE SplitLines(_)
SplitLines(text) ==
  LET breaks == {i \in 1..Len(text) : SubSeq(text, i, i) = "\n"}
  IN  IF breaks = {} THEN <<text>>
      ELSE LET first == CHOOSE i \in breaks : \A j \in breaks : i <= j
           IN  <<SubSeq(text, 1, first - 1)>>
               \o SplitLines(SubSeq(text, first + 1, Len(text)))

\* C20: the children operation called with the empty path lists direct
\* children of the tree root, first-level topics with their names unprefixed,
\* and not a "not found" text.
C20_EmptyPathListsRootChildren ==
  (/\ probe.op = "listChildren"
   /\ probe.topicPath = ""
   /\ probe.rootNode = TreeRoot
   /\ probe.limit >= 1)
    => LET lines == SplitLines(probe.result)
           rootEdges == Tree[TreeRoot].edges
       IN  /\ ~Contains(probe.result, "not found")
           /\ StartsWith(lines[1], "Child topics (")
           /\ Len(lines) > 1
           /\ Len(lines) - 1 <= Len(rootEdges)
           /\ \A i \in 2..Len(lines) :
                \E mark \in {"v ", "o "} :
                  \/ lines[i] = mark \o rootEdges[i - 1].name
                  \/ StartsWith(lines[i], mark \o rootEdges[i - 1].name \o " (")

C20_Witness ==
  /\ probe.op = "listChildren"
  /\ probe.topicPath = ""
  /\ probe.rootNode = TreeRoot
  /\ probe.limit = 2
  /\ probe.result = "Child topics (2):\no home (3 subtopics)\no test (2 subtopics)"

\* C21: the children operation called with an absent topic (null or
\* undefined, as when an invocation's arguments omit the topic) lists the
\* root's direct children, the same as for the empty path.
C21_AbsentTopicListsRootChildren ==
  (/\ probe.op = "listChildren"
   /\ probe.topicPath \in AbsentTopics
   /\ probe.rootNode = TreeRoot
   /\ probe.limit >= 1)
    => probe.result = listChildren("", probe.limit, TreeRoot)

\* a line without its leading spaces
RECURSIVE trimLeft(_)
trimLeft(line) ==
  IF Len(line) > 0 /\ SubSeq(line, 1, 1) = " "
  THEN trimLeft(SubSeq(line, 2, Len(line))) ELSE line

\* the ancestors of a node that have a path of their own (the tree root has none)
NamedAncestors(n) ==
  {a \in Nodes : a # n /\ Under(n, a) /\ Tree[a].path # ""}

\* position of ancestor a of n, counted from the top-most one
Rank(n, a) == Cardinality({b \in NamedAncestors(n) : Under(a, b)})

\* characters of one ancestor line: indentation, path, line break
AncestorLineChars(n, a) == 2 * (Rank(n, a) - 1) + Len(Tree[a].path) + 1

\* characters of the lines of a set of ancestors of n
RECURSIVE AncestorChars(_, _)
AncestorChars(n, set) ==
  IF set = {} THEN 0
  ELSE LET a == CHOOSE x \in set : TRUE
       IN  AncestorLineChars(n, a) + AncestorChars(n, set \ {a})

\* characters of the whole hierarchy of node n asked for as topicPath
HierarchyChars(n, topicPath) ==
  Len("Parent hierarchy:\n") + AncestorChars(n, NamedAncestors(n))
  + 2 * Cardinality(NamedAncestors(n)) + Len(topicPath) + Len(" (current)")

\* what the claim C22 says of one listParents call that resolved to node n
RendersHierarchy(n) ==
  LET lines == SplitLines(probe.result)
      A == NamedAncestors(n)
  IN  IF A = {}
      THEN Contains(probe.result, "No parent") /\ ~Contains(probe.result, "Error")
      ELSE /\ Len(lines) = Cardinality(A) + 2
           /\ \A a \in A : trimLeft(lines[1 + Rank(n, a)]) = Tree[a].path
           /\ trimLeft(lines[Len(lines)]) = probe.topicPath \o " (current)"

\* C22 (as stated): the parents operation on an existing node renders its
\* ancestors from the top-most one down to the immediate parent, followed by
\* the queried path marked "(current)"; a root-level node gets a "no parent"
\* text and never an error.
C22_ParentsRenderedTopDown ==
  LET n == findTopicNode(probe.topicPath, probe.rootNode)
  IN  (probe.op = "listParents" /\ probe.rootNode # NoNode /\ n # NoNode)
        => RendersHierarchy(n)

\* C22 (amended): the same, for a hierarchy that fits the operation's budget
\* of 100 tokens.
C22_ParentsRenderedTopDownWithinBudget ==
  LET n == findTopicNode(probe.topicPath, probe.rootNode)
  IN  (/\ probe.op = "listParents" /\ probe.rootNode # NoNode /\ n # NoNode
       /\ HierarchyChars(n, probe.topicPath) <= parentsTokenLimit * charsPerToken)
        => RendersHierarchy(n)

C22_Witness ==
  /\ probe.op = "listParents"
  /\ probe.rootNode = TreeRoot
  /\ probe.topicPath = "dev//probe"
  /\ probe.result = "Parent hierarchy:\ndev\n  dev/\n    dev//probe (current)"

\* ------------------------------------------------------------------------
\* Properties of the topic context (SpecQueries)
\* ------------------------------------------------------------------------

Generated == probe.op = "generateTopicContext"

ParentOf(n) == IF n = NoNode THEN NoNode ELSE Tree[n].parent

\* the priority of node n as a neighbor of the topic: 1 parent, 2 sibling,
\* 3 child, 4 grandchild, 5 cousin (a child of a sibling), 0 none of these
Priority(topic, n) ==
  CASE n = topic -> 0
    [] n = ParentOf(topic) -> 1
    [] ParentOf(n) = topic -> 3
    [] ParentOf(n) # NoNode /\ ParentOf(n) = ParentOf(topic) -> 2
    [] ParentOf(ParentOf(n)) = topic -> 4
    [] /\ ParentOf(ParentOf(n)) # NoNode
       /\ ParentOf(ParentOf(n)) = ParentOf(topic) -> 5
    [] OTHER -> 0

\* position of node n among the children of its parent
EdgeIndex(n) ==
  CHOOSE i \in DOMAIN Tree[ParentOf(n)].edges : Tree[ParentOf(n)].edges[i].node = n

\* a comes before b in the original child order (a and b of one tier)
InChildOrder(a, b) ==
  IF ParentOf(a) = ParentOf(b) THEN EdgeIndex(a) < EdgeIndex(b)
  ELSE EdgeIndex(ParentOf(a)) < EdgeIndex(ParentOf(b))

\* C23: in the related section every entry previews the parent, a sibling, a
\* child, a grandchild or a cousin of the topic, named by its path; the entries
\* come in that priority order, and within one tier in the tree's child order.
C23_RelatedEntriesInPriorityOrder ==
  Generated =>
    LET ns == probe.neighbors
        t  == probe.rootNode
    IN  /\ \A k \in DOMAIN ns :
              /\ Priority(t, ns[k].node) \in 1..5
              /\ StartsWith(ns[k].entry, "  " \o Tree[ns[k].node].path \o ": ")
        /\ \A i, j \in DOMAIN ns :
              i < j => \/ Priority(t, ns[i].node) < Priority(t, ns[j].node)
                       \/ /\ Priority(t, ns[i].node) = Priority(t, ns[j].node)
                          /\ InChildOrder(ns[i].node, ns[j].node)

\* the same order, once the topic's own entry and the repeated entries of its
\* children are left out
C23_OrderApartFromSelf ==
  Generated =>
    LET t  == probe.rootNode
        ns == SelectSeq(probe.neighbors,
                        LAMBDA e : e.node # t /\ ~(e.tier = "cousins" /\ ParentOf(e.node) = t))
    IN  \A i, j \in DOMAIN ns :
          i < j => \/ Priority(t, ns[i].node) < Priority(t, ns[j].node)
                   \/ /\ Priority(t, ns[i].node) = Priority(t, ns[j].node)
                      /\ InChildOrder(ns[i].node, ns[j].node)

\* node n is a candidate of the walk: it has a value and a non-empty name
Candidate(n) ==
  /\ n # NoNode /\ ParentOf(n) # NoNode
  /\ Tree[n].payload # ""
  /\ Tree[ParentOf(n)].edges[EdgeIndex(n)].name # ""

Emitted(n) == \E k \in DOMAIN probe.neighbors : probe.neighbors[k].node = n

\* a candidate of the same tier as the emitted node b that comes before b in
\* child order; a grandchild counts when the walk emitted its parent, the
\* children the walk descends into
EarlierInTier(topic, a, b) ==
  /\ Priority(topic, a) = Priority(topic, b)
  /\ Candidate(a)
  /\ InChildOrder(a, b)
  /\ Priority(topic, a) = 4 => Emitted(ParentOf(a))

\* C24: within a tier of the related-section walk the emitted entries are the
\* first candidates of the tier in child order: once a candidate did not fit,
\* no later candidate of the same tier is emitted (no back-fill).
C24_NoBackfillWithinTier ==
  Generated =>
    \A k \in DOMAIN probe.neighbors :
      LET b == probe.neighbors[k].node
      IN  Priority(probe.rootNode, b) \in 2..5
            => \A a \in Nodes : EarlierInTier(probe.rootNode, a, b) => Emitted(a)

\* the single-loop tiers (siblings, children) do stop at the first misfit
C24_NoBackfillAmongSiblingsAndChildren ==
  Generated =>
    \A k \in DOMAIN probe.neighbors :
      LET b == probe.neighbors[k].node
      IN  Priority(probe.rootNode, b) \in 2..3
            => \A a \in Nodes : EarlierInTier(probe.rootNode, a, b) => Emitted(a)

RECURSIVE SumTokens(_)
SumTokens(entries) ==
  IF Len(entries) = 0 THEN 0
  ELSE estimateTokens(entries[1].entry) + SumTokens(Tail(entries))

\* C25: the estimated tokens of all entries of the related section together
\* never exceed the configured neighbouring-topics budget, which is 500 when
\* none is configured.
C25_RelatedSectionWithinBudget ==
  Generated =>
    /\ probe.limit = (IF probe.configured = 0 THEN 500 ELSE probe.configured)
    /\ SumTokens(probe.neighbors) <= probe.limit

\* the default budget was binding: a sibling was left out, others were emitted
C25_Witness ==
  /\ Generated /\ probe.configured = 0
  /\ Len(probe.neighbors) > 0
  /\ \E n \in Nodes : /\ Priority(probe.rootNode, n) = 2
                       /\ Candidate(n) /\ ~Emitted(n)

\* the characters escapeToSingleLine is there for
SpecialChars == {"\\", "\n", "\r", "\t", "\""}

\* the second character of the escape sequence of a special character
EscapeLetter(c) ==
  CASE c = "\n" -> "n" [] c = "\r" -> "r" [] c = "\t" -> "t" [] OTHER -> c

\* number of special characters among the first n characters of text
Specials(text, n) ==
  Cardinality({i \in 1..n : SubSeq(text, i, i) \in SpecialChars})

EscapedLen(text) == Len(text) + Specials(text, Len(text))

\* r is the beginning of the payload p with every special character rendered
\* as a backslash and its letter (r may end between the two)
RendersStartOf(p, r) ==
  /\ Len(r) <= EscapedLen(p)
  /\ IF Specials(p, Len(p)) = 0 THEN r = SubSeq(p, 1, Len(r))
     ELSE \A i \in 1..Len(p) :
            LET c   == SubSeq(p, i, i)
                pos == i + Specials(p, i - 1)
            IN  IF c \in SpecialChars
                THEN /\ pos <= Len(r) => SubSeq(r, pos, pos) = "\\"
                     /\ pos + 1 <= Len(r) => SubSeq(r, pos + 1, pos + 1) = EscapeLetter(c)
                ELSE pos <= Len(r) => SubSeq(r, pos, pos) = c

\* r renders the payload p: all of it, or a beginning of it followed by "..."
Renders(p, r) ==
  \/ RendersStartOf(p, r) /\ Len(r) = EscapedLen(p)
  \/ /\ Len(r) >= 3 /\ SubSeq(r, Len(r) - 2, Len(r)) = "..."
     /\ RendersStartOf(p, SubSeq(r, 1, Len(r) - 3))

\* no raw newline, carriage return or tab
SingleLine(text) ==
  \A i \in 1..Len(text) : SubSeq(text, i, i) \notin {"\n", "\r", "\t"}

Unmarked(text) ==
  IF StartsWith(text, "[TRUNCATED] ") THEN sliceFrom(text, 12) ELSE text

\* lines of the context before the first related entry
LinesBeforeEntries(t) ==
  1 + (IF Tree[t].payload # "" THEN (IF Tree[t].retain THEN 2 ELSE 1) ELSE 0) + 2

\* lines the parts of the context make when no part contains a line break
ExpectedLines(t, n) ==
  1 + (IF Tree[t].payload # "" THEN (IF Tree[t].retain THEN 2 ELSE 1) ELSE 0)
    + (IF n > 0 THEN 2 + n ELSE 0)
    + (IF Tree[t].messages # 0 THEN 2 ELSE 0)
    + (IF Tree[t].childTopicCount > 0 THEN 1 ELSE 0)

\* C26: whatever the payloads, the text of generateTopicContext has exactly
\* the lines of its parts; the value line and every related-entry line hold
\* no raw newline, carriage return or tab, and show the payload (up to where
\* a truncated line is cut) with each backslash, newline, carriage return,
\* tab and double quote as a two-character escape sequence.
C26_PayloadsRenderedOnOneLine ==
  Generated =>
    LET t     == probe.rootNode
        ns    == probe.neighbors
        lines == SplitLines(probe.result)
    IN  /\ Len(lines) = ExpectedLines(t, Len(ns))
        /\ \A k \in DOMAIN lines : SingleLine(lines[k])
        /\ Tree[t].payload # ""
             => /\ StartsWith(lines[2], "Value: ")
                /\ Renders(Tree[t].payload, Unmarked(sliceFrom(lines[2], 7)))
        /\ \A k \in DOMAIN ns :
             LET line   == lines[LinesBeforeEntries(t) + k]
                 prefix == "  " \o Tree[ns[k].node].path \o ": "
             IN  /\ line = ns[k].entry
                 /\ StartsWith(line, prefix)
                 /\ Renders(Tree[ns[k].node].payload, sliceFrom(line, Len(prefix)))

\* the context of a topic whose payload holds all five special characters,
\* next to a sibling whose preview was truncated
C26_Witness ==
  /\ Generated
  /\ SpecialChars \subseteq {SubSeq(Tree[probe.rootNode].payload, i, i) :
                               i \in 1..Len(Tree[probe.rootNode].payload)}
  /\ \E k \in DOMAIN probe.neighbors :
        /\ probe.neighbors[k].node # probe.rootNode
        /\ EscapedLen(Tree[probe.neighbors[k].node].payload)
             > neighborAllocation * charsPerToken
  /\ \E k \in DOMAIN probe.neighbors :
        Specials(Tree[probe.neighbors[k].node].payload,
                 Len(Tree[probe.neighbors[k].node].payload)) > 0

\* the part of the context a line belongs to: 1 path, 2 value, 3 retained
\* marker, 4 related section, 5 message count, 6 child count; 0 a blank line
PartOf(line) ==
  CASE line = "" -> 0
    [] StartsWith(line, "Topic: ") -> 1
    [] StartsWith(line, "Value: ") -> 2
    [] line = "Retained: true" -> 3
    [] StartsWith(line, "Related Topics (") \/ StartsWith(line, "  ") -> 4
    [] StartsWith(line, "Messages: ") -> 5
    [] StartsWith(line, "Subtopics: ") -> 6
    [] OTHER -> 7

\* the parts come in the order path, value, retained marker, related section,
\* message count, child count, each of them at most once
PartsInOrder ==
  Generated =>
    LET lines == SplitLines(probe.result)
        t     == Tree[probe.rootNode]
    IN  /\ lines[1] = "Topic: " \o t.path
        /\ \A k \in DOMAIN lines : PartOf(lines[k]) \in 0..6
        /\ \A i, j \in DOMAIN lines :
             (i < j /\ PartOf(lines[i]) # 0 /\ PartOf(lines[j]) # 0)
               => \/ PartOf(lines[i]) < PartOf(lines[j])
                  \/ PartOf(lines[i]) = 4 /\ PartOf(lines[j]) = 4
        /\ t.payload # "" => PartOf(lines[2]) = 2
        /\ (t.payload # "" /\ t.retain) => PartOf(lines[3]) = 3
        /\ t.messages # 0 => \E k \in DOMAIN lines : PartOf(lines[k]) = 5
        /\ t.childTopicCount > 0 => PartOf(lines[Len(lines)]) = 6

\* the topic has a valued parent, sibling, child, grandchild or cousin
HasNeighbors(topic) ==
  \E n \in Nodes : Priority(topic, n) \in 1..5 /\ Tree[n].payload # ""

\* C27: generateTopicContext emits its parts in the order path, value,
\* retained marker, related section, message count, child count; for a topic
\* without neighbors the text has no related section, and it still has the
\* path line and, when the topic has a value, the value line.
C27_PartsInOrderAndNoEmptyRelatedSection ==
  /\ PartsInOrder
  /\ (Generated /\ ~HasNeighbors(probe.rootNode))
       => LET lines == SplitLines(probe.result)
          IN  /\ \A k \in DOMAIN lines : PartOf(lines[k]) # 4
              /\ PartOf(lines[1]) = 1
              /\ Tree[probe.rootNode].payload # "" => PartOf(lines[2]) = 2

\* ------------------------------------------------------------------------
\* Properties of the conversation, continued (Spec)
\* ------------------------------------------------------------------------

\* a step of clearHistory: the history changes while no activation moves
ClearStep ==
  /\ UNCHANGED <<call, turns>>
  /\ conversationHistory' # conversationHistory

\* a step in which activation p starts a turn
StartStep(p) == call[p].pc = "idle" /\ call'[p].pc = "awaitInitial"

\* C28: clearHistory leaves exactly one message in the history, the system
\* message, whatever turns came before; the first gateway request of the turn
\* that follows holds the system message and that turn's user message only.
C28_ClearLeavesOnlySystemMessage ==
  [][ /\ ClearStep => conversationHistory' = <<SystemMessage>>
      /\ \A p \in Slots :
           (StartStep(p) /\ turns > 0 /\ Len(conversationHistory) = 1)
             => /\ Len(request'[p].messages) = 2
                /\ request'[p].messages[1] = SystemMessage
                /\ request'[p].messages[2].role = "user"
                /\ Contains(request'[p].messages[2].content, call'[p].userMessage)
                /\ request'[p].messages = conversationHistory' ]_vars

\* the second turn has sent its first request with two messages, after a
\* first turn that went through tool rounds
C28_Witness ==
  /\ turns = 2 /\ toolReplies > 0
  /\ \E p \in Slots :
        /\ call[p].pc = "awaitInitial" /\ trace[p].turn = 2
        /\ Len(request[p].messages) = 2
        /\ request[p].messages[1] = SystemMessage

\* s is a beginning of t
IsPrefix(s, t) == Len(s) <= Len(t) /\ SubSeq(t, 1, Len(s)) = s

\* C29: when a turn that executed at least one tool invocation returns, the
\* returned toolCalls is defined and not empty, and it lists invocations the
\* turn executed, beginning with the first: the turn's initial tool calls.
C29_ReturnsExecutedInvocations ==
  \A p \in Slots :
    (outcome[p].status = "returned" /\ Len(trace[p].executed) > 0)
      => /\ outcome[p].toolCallsDefined
         /\ Len(outcome[p].toolCalls) > 0
         /\ IsPrefix(Ids(outcome[p].toolCalls), trace[p].executed)

\* an assistant message without text and without tool invocations
EmptyReply(m) == m.role = "assistant" /\ m.content = "" /\ Len(m.tool_calls) = 0

\* C30: a gateway result without text is accepted only if it carries at least
\* one tool invocation: when the last result of a turn had neither text nor
\* invocations (the list absent or empty) sendMessage has thrown, and no empty
\* reply is recorded in the history or returned.
C30_EmptyResultIsRejected ==
  /\ \A p \in Slots :
       /\ (Finished(p) /\ Len(trace[p].replies) > 0 /\ Last(trace[p].replies) = "empty")
            => outcome[p].status = "threw"
       /\ outcome[p].status = "returned" => outcome[p].response # ""
  /\ \A i \in DOMAIN conversationHistory : ~EmptyReply(conversationHistory[i])

\* the same for results in which the list of invocations is absent
C30_ResultWithoutListIsRejected ==
  \A p \in Slots :
    (Finished(p) /\ Len(trace[p].replies) > 0 /\ Last(trace[p].replies) = "empty"
       /\ outcome[p].status = "returned")
      => outcome[p].toolCallsDefined

\* ------------------------------------------------------------------------
\* Properties of the backend client (SpecQueries)
\* ------------------------------------------------------------------------

\* the tool_calls of a message of a provider request, <<>> when it has none
ToolCallsOf(m) == IF "tool_calls" \in DOMAIN m THEN m.tool_calls ELSE <<>>

\* the tool_call_id of a message of a provider request, "" when it has none
ToolCallIdOf(m) == IF "tool_call_id" \in DOMAIN m THEN m.tool_call_id ELSE ""

\* C31: the backend client forwards the message list to the provider without
\* losing protocol fields: an assistant message's tool_calls and a tool
\* message's tool_call_id are in the provider request exactly as in the input.
C31_ProtocolFieldsForwarded ==
  probe.op = "chat" /\ probe.name = "openai" =>
    /\ Len(probe.forwarded) = Len(probe.messages)
    /\ \A i \in DOMAIN probe.messages :
         /\ probe.forwarded[i].role = probe.messages[i].role
         /\ ToolCallsOf(probe.forwarded[i]) = probe.messages[i].tool_calls
         /\ ToolCallIdOf(probe.forwarded[i]) = probe.messages[i].tool_call_id

\* what the request does keep: one message per input message, with its role
\* and its content
C31_RolesAndContentsForwarded ==
  probe.op = "chat" /\ probe.name = "openai" =>
    /\ Len(probe.forwarded) = Len(probe.messages)
    /\ \A i \in DOMAIN probe.messages :
         /\ probe.forwarded[i].role = probe.messages[i].role
         /\ probe.forwarded[i].content = probe.messages[i].content

\* ------------------------------------------------------------------------
\* Properties of the dispatcher operations as reads (SpecQueries)
\* ------------------------------------------------------------------------

DispatcherOps == {"queryTopicHistory", "getTopic", "listChildren", "listParents"}

Grouped(h) ==
  /\ \A i \in DOMAIN h :
       h[i].role = "tool" =>
         \E j \in 1..(i - 1) :
            /\ h[j].role = "assistant"
            /\ \E k \in DOMAIN h[j].tool_calls : h[j].tool_calls[k].id = h[i].tool_call_id
            /\ \A m \in (j + 1)..i : h[m].role = "tool"
  /\ \A j \in DOMAIN h :
       h[j].role = "assistant" =>
         \A k \in DOMAIN h[j].tool_calls :
            /\ j + k <= Len(h)
            /\ h[j + k].role = "tool"
            /\ h[j + k].tool_call_id = h[j].tool_calls[k].id

\* a step in which activation p pushes its final reply, trims and returns
TrimStep(p) ==
  /\ call[p].pc # "idle"
  /\ outcome'[p].status = "returned"
  /\ conversationHistory' # conversationHistory

\* the history of such a step before the trim
Untrimmed(p) ==
  (CASE call[p].pc = "joinInitial" ->
          conversationHistory \o toolMessages(call[p].toolResults)
     [] call[p].pc = "joinRound" ->
          conversationHistory \o toolMessages(call[p].newToolResults)
     [] OTHER -> conversationHistory)
  \o <<Last(conversationHistory')>>

\* C33: trimming never cuts a request/response group in half: when the
\* history of a returning turn is grouped before the trim, the history kept
\* is grouped too.
C33_TrimKeepsGroupsWhole ==
  [][ \A p \in Slots :
        (TrimStep(p) /\ Grouped(Untrimmed(p))) => Grouped(conversationHistory') ]_vars

\* what the trim does keep: the first message and the last 10, in order
C33_TrimKeepsFirstAndLastTen ==
  [][ \A p \in Slots :
        TrimStep(p) =>
          /\ conversationHistory' = trimHistory(Untrimmed(p))
          /\ conversationHistory'[1] = conversationHistory[1]
          /\ Len(Untrimmed(p)) > trimThreshold =>
               SubSeq(conversationHistory', 2, keepLast + 1)
                 = SubSeq(Untrimmed(p), Len(Untrimmed(p)) - keepLast + 1,
                          Len(Untrimmed(p))) ]_vars

\* a step in which activation p returns normally
ReturnStep(p) == call[p].pc # "idle" /\ outcome'[p].status = "returned"

\* C34: whenever sendMessage returns normally, the history ends with an
\* assistant message without tool invocations whose content is the returned
\* response text, also when the gateway asked for tools and no focus node
\* was supplied.
C34_ReturnedTurnEndsWithItsReply ==
  [][ \A p \in Slots :
        ReturnStep(p) =>
          Last(conversationHistory') = AssistantMessage(outcome'[p].response, <<>>) ]_vars

\* the same for every turn that was given a focus node or was not asked for
\* tool invocations
C34_ReplyPushedUnlessToolsWithoutFocus ==
  [][ \A p \in Slots :
        (ReturnStep(p) /\ (call[p].currentNode # NoNode \/ trace'[p].offered = <<>>))
          => Last(conversationHistory') = AssistantMessage(outcome'[p].response, <<>>) ]_vars

\* ------------------------------------------------------------------------
\* Properties of the topic context, continued (SpecQueries)
\* ------------------------------------------------------------------------

\* C35: the related section never lists the topic itself and never lists the
\* same topic path more than once.
C35_NoSelfAndNoDuplicates ==
  Generated =>
    /\ \A k \in DOMAIN probe.neighbors : probe.neighbors[k].node # probe.rootNode
    /\ \A k, m \in DOMAIN probe.neighbors :
         probe.neighbors[k].fullPath = probe.neighbors[m].fullPath => k = m

\* the entry that lists node n
EntryOf(n) == "  " \o Tree[n].path \o ": "
              \o formatValueForContext(Tree[n].payload, neighborAllocation, FALSE)

\* the value-holding grandchildren of the topic, reached over named edges
Grandchildren(topic) ==
  {n \in Nodes : /\ ParentOf(ParentOf(n)) = topic
                 /\ Candidate(n)
                 /\ \E i \in DOMAIN Tree[topic].edges :
                      /\ Tree[topic].edges[i].node = ParentOf(n)
                      /\ Tree[topic].edges[i].name # ""}

\* the budget left after the related section would still take the entry of n
StillFits(n) ==
  SumTokens(probe.neighbors) + estimateTokens(EntryOf(n)) <= probe.limit

\* C36: with sufficient budget every value-holding grandchild of the topic is
\* listed in the related section, whether or not the child above it holds a
\* value or was listed.
C36_AllGrandchildrenAreCandidates ==
  Generated =>
    \A n \in Grandchildren(probe.rootNode) :
      StillFits(n) => \E k \in DOMAIN probe.neighbors : probe.neighbors[k].node = n

\* what holds: with sufficient budget the value-holding grandchildren below a
\* listed child are listed
C36_GrandchildrenBelowListedChildren ==
  Generated =>
    \A n \in Grandchildren(probe.rootNode) :
      (StillFits(n) /\ \E k \in DOMAIN probe.neighbors :
                          /\ probe.neighbors[k].node = ParentOf(n)
                          /\ probe.neighbors[k].tier = "children")
        => \E k \in DOMAIN probe.neighbors :
              /\ probe.neighbors[k].node = n
              /\ probe.neighbors[k].tier = "grandchildren"

\* ------------------------------------------------------------------------
\* Properties of the system message and of generateSuggestedQuestions (SpecSuggest)
\* ------------------------------------------------------------------------

\* C37: in every reachable state the history is non-empty and its first
\* element is the system message created at construction.
C37_SystemMessageStaysFirst ==
  /\ Len(conversationHistory) >= 1
  /\ conversationHistory[1] = SystemMessage
  /\ \A i \in DOMAIN conversationHistory :
       conversationHistory[i].role = "system" => i = 1

\* questions were suggested on a history that a turn had trimmed to the
\* system message and 10 more
C37_Witness ==
  /\ probe.op = "generateSuggestedQuestions"
  /\ turns > 0 /\ toolReplies > 2
  /\ Len(conversationHistory) = keepLast + 1
  /\ conversationHistory[1] = SystemMessage
  /\ conversationHistory[2].role # "user"

\* a step of generateSuggestedQuestions
SuggestStep == probe'.op = "generateSuggestedQuestions" /\ probe' # probe

\* C38: generateSuggestedQuestions never changes the conversation history and
\* never throws; on a gateway failure, an empty reply or an unparsable reply
\* it returns an empty list, and otherwise at most 5 questions.
C38_SuggestionsLeaveHistoryAndNeverThrow ==
  [][ SuggestStep =>
        /\ conversationHistory' = conversationHistory
        /\ ~probe'.threw
        /\ Len(probe'.questions) <= maxQuestions
        /\ (probe'.name # "ok" \/ probe'.text \in {"", NoArray, NotJson})
             => probe'.questions = <<>>
        /\ probe'.text = SevenQuestions
             => probe'.questions = <<"q1", "q2", "q3", "q4", "q5">>
        /\ probe'.text = ThreeQuestions => Len(probe'.questions) = 3 ]_vars

\* the gateway failed and an empty list came back, after a turn with tools
C38_Witness ==
  /\ probe.op = "generateSuggestedQuestions"
  /\ probe.name = "rejected"
  /\ ~probe.threw /\ probe.questions = <<>>
  /\ Len(conversationHistory) > 2

====
